---- MODULE Spec2Model ----
(***************************************************************************)
(* Model of the streaming core of the market-data platform:                *)
(*   - collectors/circuit_breaker.py  (CircuitBreaker)                     *)
(*   - processors/bar_builder.py      (BarBuilder)                         *)
(*   - api/rate_limiter.py            (TokenBucketRateLimiter)             *)
(*   - api/alert_manager.py           (AlertManager)                       *)
(*   - api/websocket.py               (ConnectionManager)                  *)
(*   - api/main.py                    (websocket_endpoint)                 *)
(*   - processors/main.py             (the processor's pub/sub loop)       *)
(*   - processors/data_quality.py     (DataQualityChecker)                 *)
(*   - collectors/base_collector.py   (BaseCollector)                      *)
(*   - collectors/polygon_collector.py (PolygonCollector)                  *)
(* Each component has its own specification over its own variables (Spec   *)
(* for the breaker, SpecBars for the bar builder fed with ticks,           *)
(* SpecRollup for the roll-up fed with base candles, SpecLimiter for the   *)
(* rate limiter called one request at a time, SpecLimiterConc for          *)
(* requests in flight together, SpecAlerts for the alert manager,          *)
(* SpecFanOut for the WebSocket fan-out, SpecEndpoint for the fan-out with  *)
(* the endpoint's snapshot, SpecPipeline for the pub/sub channels and the  *)
(* processor's loop, SpecQuality for the tick validation, SpecCollector    *)
(* for the run loop of a collector, SpecPolygon for the polling            *)
(* collector's rate limit, SpecEval for alert evaluation step by step,     *)
(* SpecEvalCache for the same over the lifetime of the rule cache,         *)
(* SpecBroadcast for one broadcast interleaved with the endpoints); the    *)
(* variables of the other components stay at their initial values.         *)
(*                                                                         *)
(* Time of the breaker is counted in quarters of a second, so the test     *)
(* fixture's timeout 0.5 s is 2 and max_timeout 2.0 s is 8.                *)
(* Tick timestamps are counted in tenths of a second (600 = 60.0 s).       *)
(* Bucket tokens are counted in 1/period of a token, alert time in units   *)
(* of 10 s and fan-out time in units of 100 ms.  Collector time is in      *)
(* seconds and polling time in units of 10 s.                              *)
(***************************************************************************)
EXTENDS Integers, Sequences, FiniteSets, TLC

Min(a, b) == IF a <= b THEN a ELSE b
Max(a, b) == IF a >= b THEN a ELSE b

\* Python's None for an optional time stamp.
None == 0 - 1

(***************************************************************************)
(* Circuit breaker: configuration (CircuitBreakerConfig as built by the    *)
(* fixture of tests/unit/test_circuit_breaker.py).                         *)
(***************************************************************************)
FailureThreshold == 3
Timeout == 2
SuccessThreshold == 2
ExponentialBackoff == TRUE
MaxTimeoutCfg == 8
Component == "test_component"

\* Bounds of the breaker model.
MaxTime == 12
NumCallers == 2
Callers == 1..NumCallers

VARIABLES
    breaker,    \* the CircuitBreaker object's fields
    now,        \* time.time()
    pc,         \* per caller: "idle", or "running" (admitted, func in flight)
    cbLast,     \* observation: the last breaker event and the state it met
    cbHist,     \* observation: run counters of outcomes
    admitted_in, \* observation: per caller in flight, the state that admitted it
    builder,    \* the BarBuilder object's fields
    tickLog,    \* observation: accepted ticks per symbol, in arrival order
    openTicks,  \* observation: ticks applied to the open base candle
    doneTicks,  \* observation: per completed base candle, the ticks applied
    openBases,  \* observation: base candles rolled into the open candle
    doneBases,  \* observation: per completed rolled candle, its base candles
    fed,        \* number of inputs fed to the bar builder
    limiter,    \* the TokenBucketRateLimiter object's fields
    redis,      \* the cache store: per client key, the bucket hash
    rl_now,     \* time.time() of the API process, in seconds
    rl_pc,      \* per request slot: idle, or the request read so far
    rl_calls,   \* number of calls of is_allowed so far
    rlBurst,    \* observation: per client, the requests since a full bucket
    rlLast,     \* observation: the last decision of is_allowed
    db_alerts,  \* the alerts table: per alert id, its row
    alerts_cache,        \* AlertManager._alerts_cache, per symbol
    last_cache_refresh,  \* AlertManager._last_cache_refresh
    al_now,     \* datetime.utcnow() of the alert engine
    al_checks,  \* number of calls of check_alerts so far
    alFires,    \* observation: per rule, its fires
    alLast,     \* observation: the last evaluation
    manager,    \* the ConnectionManager object's fields
    sock,       \* per WebSocket object: "new", "open", "broken", "closed"
    ws_now,     \* time.time() of the fan-out, in units of 100 ms
    next_flush, \* when the sleep of the batch flusher ends
    ws_seq,     \* number of chart updates broadcast so far
    wsLast,     \* observation: the last operation of the manager
    initial_sent, \* the clients whose endpoint has sent the `initial` frame
    proc_inbox, \* messages delivered to the processor's subscription, in order
    tasks,      \* the completed-bar messages the processor is handling
    effects,    \* observation: the side effects of the processor, in order
    pub_count,  \* number of messages published so far
    pubLast,    \* observation: the publications of the last handler
    checker,    \* the DataQualityChecker: histories and scores per symbol
    dq_count,   \* number of validations so far
    dqStream,   \* observation: the pass/fail outcomes per symbol, in order
    dqLast,     \* observation: the last validation and its result
    collector,  \* the BaseCollector object's fields
    col_pc,     \* where start() is: top, running, backoff, breaker_sleep, stopped
    col_wake,   \* when the collector's current sleep ends
    col_breaker, \* the collector's CircuitBreaker
    col_now,    \* the collector's clock, in seconds
    col_attempts, \* number of connect() calls so far
    health_tasks, \* number of _health_update_loop tasks alive
    colErr,     \* observation: the error not yet followed by a connect attempt
    colLast,    \* observation: the last step of the collector
    polygon,    \* the PolygonCollector's rate-limit and backoff fields
    poly_pc,    \* where _poll_data is: symbol index, stage, end of its sleep
    poly_now,   \* datetime.now() of the polling collector, in units of 10 s
    poly_log,   \* observation: the times of the upstream requests, in order
    ev_db,      \* the alerts table of the evaluation model
    ev_cache,   \* _alerts_cache: per symbol the index of the cached list, or 0
    ev_refreshed, \* _last_cache_refresh
    ev_heap,    \* the lists of alert objects loaded from the store
    ev_inbox,   \* the updates waiting for the processor's loop
    ev_tasks,   \* the calls of check_alerts in progress
    ev_now,     \* datetime.utcnow() of the evaluation, in units of 10 s
    ev_count,   \* number of updates arrived so far
    ev_mutations, \* observation: per symbol, the completed mutations of its rules
    evFires,    \* observation: per rule, its fires
    evMacd,     \* observation: the metadata stored and compared by the MACD rule
    evLast,     \* observation: the last step of the evaluation
    bc_manager, \* the ConnectionManager of the step-by-step broadcast model
    bc_sock,    \* per client: new, open, broken (sends raise) or closed
    bc_task,    \* the call of broadcast() in progress, or NoTask
    bc_now,     \* time.time() of the broadcast model, in units of 100 ms
    bc_seq,     \* number of broadcasts started so far
    bc_stayed,  \* observation: clients registered and open since the call began
    bc_got,     \* observation: clients the call has sent to or queued for
    bcLast      \* observation: how the last call of broadcast() ended

cbVars == <<breaker, now, pc, cbLast, cbHist, admitted_in>>
barVars == <<builder, tickLog, openTicks, doneTicks, openBases, doneBases, fed>>
rlVars == <<limiter, redis, rl_now, rl_pc, rl_calls, rlBurst, rlLast>>
alertVars == <<db_alerts, alerts_cache, last_cache_refresh, al_now, al_checks,
               alFires, alLast>>
wsVars == <<manager, sock, ws_now, next_flush, ws_seq, wsLast, initial_sent>>
apiVars == <<rlVars, alertVars, wsVars>>
pipeVars == <<proc_inbox, tasks, effects, pub_count, pubLast>>
dqVars == <<checker, dq_count, dqStream, dqLast>>
colVars == <<collector, col_pc, col_wake, col_breaker, col_now, col_attempts,
             health_tasks, colErr, colLast>>
polyVars == <<polygon, poly_pc, poly_now, poly_log>>
backVars == <<pipeVars, dqVars, colVars, polyVars>>
evVars == <<ev_db, ev_cache, ev_refreshed, ev_heap, ev_inbox, ev_tasks, ev_now,
            ev_count, ev_mutations, evFires, evMacd, evLast>>
bcVars == <<bc_manager, bc_sock, bc_task, bc_now, bc_seq, bc_stayed, bc_got,
            bcLast>>
extVars == <<evVars, bcVars>>
vars == <<cbVars, barVars, apiVars, backVars, extVars>>

(***************************************************************************)
(* CircuitBreaker                                                          *)
(***************************************************************************)
BreakerInit ==
    [state |-> "CLOSED", failure_count |-> 0, success_count |-> 0,
     last_failure_time |-> None, opened_at |-> None,
     current_timeout |-> Timeout]

transition_to_open_no_backoff(b, t) ==
    [b EXCEPT !.state = "OPEN", !.opened_at = t, !.success_count = 0]

transition_to_open(b, t) ==
    [b EXCEPT !.state = "OPEN",
              !.opened_at = t,
              !.success_count = 0,
              !.current_timeout = IF ExponentialBackoff
                                  THEN Min(b.current_timeout * 2, MaxTimeoutCfg)
                                  ELSE b.current_timeout]

transition_to_half_open(b) ==
    [b EXCEPT !.state = "HALF_OPEN", !.success_count = 0, !.failure_count = 0]

transition_to_closed_keep_timeout(b) ==
    [b EXCEPT !.state = "CLOSED", !.failure_count = 0, !.success_count = 0,
              !.opened_at = None]

transition_to_closed(b) ==
    [b EXCEPT !.state = "CLOSED",
              !.failure_count = 0,
              !.success_count = 0,
              !.opened_at = None,
              !.current_timeout = Timeout]

should_attempt_reset_strict(b, t) ==
    IF b.opened_at = None THEN FALSE
    ELSE (t - b.opened_at) > b.current_timeout

should_attempt_reset(b, t) ==
    IF b.opened_at = None THEN FALSE
    ELSE (t - b.opened_at) >= b.current_timeout

get_retry_after(b, t) ==
    IF b.opened_at = None THEN 0
    ELSE Max(0, b.current_timeout - (t - b.opened_at))

on_success_keeps_failures(b) ==
    IF b.state = "HALF_OPEN"
    THEN LET b2 == [b EXCEPT !.success_count = @ + 1] IN
         IF b2.success_count >= SuccessThreshold
         THEN transition_to_closed(b2)
         ELSE b2
    ELSE IF b.state = "CLOSED"
         THEN [b EXCEPT !.current_timeout = Timeout]
         ELSE b

on_success(b) ==
    LET b1 == [b EXCEPT !.failure_count = 0] IN
    IF b1.state = "HALF_OPEN"
    THEN LET b2 == [b1 EXCEPT !.success_count = @ + 1] IN
         IF b2.success_count >= SuccessThreshold
         THEN transition_to_closed(b2)
         ELSE b2
    ELSE IF b1.state = "CLOSED"
         THEN [b1 EXCEPT !.current_timeout = Timeout]
         ELSE b1

on_failure_off_by_one(b, t) ==
    LET b1 == [b EXCEPT !.failure_count = @ + 1, !.last_failure_time = t] IN
    IF b1.state = "CLOSED"
    THEN IF b1.failure_count > FailureThreshold
         THEN transition_to_open(b1, t)
         ELSE b1
    ELSE IF b1.state = "HALF_OPEN"
         THEN transition_to_open(b1, t)
         ELSE b1

on_failure(b, t) ==
    LET b1 == [b EXCEPT !.failure_count = @ + 1, !.last_failure_time = t] IN
    IF b1.state = "CLOSED"
    THEN IF b1.failure_count >= FailureThreshold
         THEN transition_to_open(b1, t)
         ELSE b1
    ELSE IF b1.state = "HALF_OPEN"
         THEN transition_to_open(b1, t)
         ELSE b1

\* The locked prologue of call(): the breaker after the admission check, and
\* the CircuitBreakerOpenError raised instead of running func, if any.
call_admission(b, t) ==
    IF b.state = "OPEN"
    THEN IF should_attempt_reset(b, t)
         THEN [breaker |-> transition_to_half_open(b), admitted |-> TRUE,
               component |-> Component, retry_after |-> 0]
         ELSE [breaker |-> b, admitted |-> FALSE,
               component |-> Component, retry_after |-> get_retry_after(b, t)]
    ELSE [breaker |-> b, admitted |-> TRUE,
          component |-> Component, retry_after |-> 0]

\* Observation of one breaker event: what happened, and the state it met.
Event(op, c, b, t, err, h) ==
    [op |-> op, caller |-> c, from |-> b.state, tmo |-> b.current_timeout,
     opened |-> b.opened_at, at |-> t, component |-> err.component,
     retry_after |-> err.retry_after, consec |-> h.consec,
     hoSucc |-> h.hoSucc, quiet |-> h.quiet, openedFrom |-> h.openedFrom]

NoError == [component |-> "", retry_after |-> 0]

HistInit == [consec |-> 0, hoSucc |-> 0, quiet |-> FALSE, openedFrom |-> "none"]

\* Run counters after an event that took the breaker from b to b2:
\*   consec     failures reported since the last success or reset
\*   hoSucc     successes reported since the breaker became HALF_OPEN
\*   quiet      nothing but the passing of time since the breaker opened
\*   openedFrom the state the breaker was in when it last opened
HistAfter(op, b, b2) ==
    [consec |-> IF op = "failure" THEN cbHist.consec + 1
                ELSE IF op \in {"success", "reset"} THEN 0
                ELSE cbHist.consec,
     hoSucc |-> IF b2.state # "HALF_OPEN" \/ b.state # "HALF_OPEN" THEN 0
                ELSE IF op = "success" THEN cbHist.hoSucc + 1
                ELSE cbHist.hoSucc,
     quiet |-> (b.state # "OPEN" /\ b2.state = "OPEN"),
     openedFrom |-> IF b.state # "OPEN" /\ b2.state = "OPEN" THEN b.state
                    ELSE IF b2.state = "CLOSED" THEN "none"
                    ELSE cbHist.openedFrom]

\* call(): the admission check under the lock.
Call(c) ==
    /\ pc[c] = "idle"
    /\ LET r == call_admission(breaker, now) IN
       /\ breaker' = r.breaker
       /\ pc' = [pc EXCEPT ![c] = IF r.admitted THEN "running" ELSE "idle"]
       /\ cbLast' = Event(IF r.admitted THEN "admit" ELSE "reject", c, breaker,
                          now, r, cbHist)
       /\ cbHist' = HistAfter("call", breaker, r.breaker)
       /\ admitted_in' = [admitted_in EXCEPT ![c] = IF r.admitted
                                                    THEN r.breaker.state
                                                    ELSE "none"]
    /\ UNCHANGED <<now>>
    /\ UNCHANGED <<barVars, apiVars, backVars, extVars>>

\* func returned: _on_success under the lock.
Success(c) ==
    /\ pc[c] = "running"
    /\ LET b2 == on_success(breaker)
           h2 == HistAfter("success", breaker, b2) IN
       /\ breaker' = b2
       /\ cbHist' = h2
       /\ cbLast' = Event("success", c, breaker, now, NoError,
                          [h2 EXCEPT !.hoSucc = IF breaker.state = "HALF_OPEN"
                                                THEN cbHist.hoSucc + 1
                                                ELSE 0])
    /\ pc' = [pc EXCEPT ![c] = "idle"]
    /\ admitted_in' = [admitted_in EXCEPT ![c] = "none"]
    /\ UNCHANGED <<now>>
    /\ UNCHANGED <<barVars, apiVars, backVars, extVars>>

\* func raised: _on_failure under the lock.
Failure(c) ==
    /\ pc[c] = "running"
    /\ LET b2 == on_failure(breaker, now)
           h2 == HistAfter("failure", breaker, b2) IN
       /\ breaker' = b2
       /\ cbHist' = h2
       /\ cbLast' = Event("failure", c, breaker, now, NoError, h2)
    /\ pc' = [pc EXCEPT ![c] = "idle"]
    /\ admitted_in' = [admitted_in EXCEPT ![c] = "none"]
    /\ UNCHANGED <<now>>
    /\ UNCHANGED <<barVars, apiVars, backVars, extVars>>

\* reset(): manual reset under the lock.
Reset ==
    /\ LET b2 == transition_to_closed(breaker)
           h2 == HistAfter("reset", breaker, b2) IN
       /\ breaker' = b2
       /\ cbHist' = h2
       /\ cbLast' = Event("reset", 0, breaker, now, NoError, h2)
    /\ UNCHANGED <<now, pc, admitted_in>>
    /\ UNCHANGED <<barVars, apiVars, backVars, extVars>>

\* The clock advances by one unit.
Advance ==
    /\ now < MaxTime
    /\ now' = now + 1
    /\ cbHist' = cbHist
    /\ cbLast' = [cbLast EXCEPT !.op = "time"]
    /\ UNCHANGED <<breaker, pc, admitted_in>>
    /\ UNCHANGED <<barVars, apiVars, backVars, extVars>>

(***************************************************************************)
(* BarBuilder                                                              *)
(***************************************************************************)
\* Fixed-point scale of tick timestamps: tenths of a second.
Scale == 10

Symbols == {"BTC", "ETH"}
base_timeframe == "1m"
aggregation_timeframes == <<"5m", "15m", "1h">>
Timeframes == {"1m", "5m", "15m", "1h"}
cache_size == 1000

timeframe_seconds(tf) ==
    CASE tf = "1m" -> 60
      [] tf = "5m" -> 300
      [] tf = "15m" -> 900
      [] tf = "1h" -> 3600
      [] tf = "4h" -> 14400
      [] tf = "1d" -> 86400
      [] OTHER -> 60

\* current_bars[symbol].get(timeframe) is None
NoBar == [bucket_time |-> None]

BuilderInit ==
    [current_bars |-> [s \in Symbols |-> [tf \in Timeframes |-> NoBar]],
     completed_bars_cache |-> [s \in Symbols |-> [tf \in Timeframes |-> <<>>]],
     invalid_bars_total |-> 0]

get_bucket_time_boundary_old(timestamp, timeframe) ==
    ((timestamp - 1) \div (Scale * timeframe_seconds(timeframe)))
        * timeframe_seconds(timeframe)

\* int(timestamp // interval_seconds * interval_seconds); the timestamp is
\* given in tenths of a second, the bucket is in whole seconds.
get_bucket_time(timestamp, timeframe) ==
    (timestamp \div (Scale * timeframe_seconds(timeframe)))
        * timeframe_seconds(timeframe)

init_bar(symbol, timeframe, bucket_time, price, quantity) ==
    [symbol |-> symbol, timeframe |-> timeframe, bucket_time |-> bucket_time,
     open |-> price, high |-> price, low |-> price, close |-> price,
     volume |-> quantity, trade_count |-> 1, completed |-> FALSE]

validate_ohlc(bar) ==
    IF bar.high < Max(bar.open, bar.close) THEN FALSE
    ELSE IF bar.low > Min(bar.open, bar.close) THEN FALSE
    ELSE IF \E v \in {bar.open, bar.high, bar.low, bar.close} : v <= 0 THEN FALSE
    ELSE IF bar.volume < 0 THEN FALSE
    ELSE TRUE

RECURSIVE complete_bar(_, _, _, _)

extend_agg_bar_high_of_close(agg_bar, base_bar) ==
    [agg_bar EXCEPT !.high = Max(agg_bar.high, base_bar.close),
                    !.low = Min(agg_bar.low, base_bar.low),
                    !.close = base_bar.close,
                    !.volume = @ + base_bar.volume,
                    !.trade_count = @ + base_bar.trade_count,
                    !.base_bars_count = @ + 1]

\* The update of an open aggregated bar by one more base bar.
extend_agg_bar(agg_bar, base_bar) ==
    [agg_bar EXCEPT !.high = Max(agg_bar.high, base_bar.high),
                    !.low = Min(agg_bar.low, base_bar.low),
                    !.close = base_bar.close,
                    !.volume = @ + base_bar.volume,
                    !.trade_count = @ + base_bar.trade_count,
                    !.base_bars_count = @ + 1]

\* One turn of the loop of _aggregate_higher_timeframes.
aggregate_one(st, symbol, base_bar, timeframe) ==
    LET bucket_time == get_bucket_time(base_bar.bucket_time * Scale, timeframe)
        agg_bar == st.current_bars[symbol][timeframe]
    IN  IF agg_bar = NoBar \/ agg_bar.bucket_time # bucket_time
        THEN LET st1 == IF agg_bar # NoBar
                        THEN complete_bar(st, symbol, timeframe, agg_bar)
                        ELSE st
             IN  [st1 EXCEPT !.current_bars[symbol][timeframe] =
                    [symbol |-> symbol, timeframe |-> timeframe,
                     bucket_time |-> bucket_time,
                     open |-> base_bar.open, high |-> base_bar.high,
                     low |-> base_bar.low, close |-> base_bar.close,
                     volume |-> base_bar.volume,
                     trade_count |-> base_bar.trade_count,
                     completed |-> FALSE, base_bars_count |-> 1]]
        ELSE [st EXCEPT !.current_bars[symbol][timeframe] =
                extend_agg_bar(agg_bar, base_bar)]

RECURSIVE aggregate_from(_, _, _, _)
aggregate_from(st, symbol, base_bar, i) ==
    IF i > Len(aggregation_timeframes) THEN st
    ELSE aggregate_from(
            aggregate_one(st, symbol, base_bar, aggregation_timeframes[i]),
            symbol, base_bar, i + 1)

aggregate_higher_timeframes(st, symbol, base_bar) ==
    aggregate_from(st, symbol, base_bar, 1)

complete_bar(st, symbol, timeframe, bar) ==
    LET done == [bar EXCEPT !.completed = TRUE]
        grown == Append(st.completed_bars_cache[symbol][timeframe], done)
        st1 == [st EXCEPT
                  !.invalid_bars_total =
                      IF validate_ohlc(done) THEN @ ELSE @ + 1,
                  !.completed_bars_cache[symbol][timeframe] =
                      IF Len(grown) > cache_size THEN Tail(grown) ELSE grown]
    IN  IF timeframe = base_timeframe
        THEN aggregate_higher_timeframes(st1, symbol, done)
        ELSE st1

update_bar_low_max(current_bar, price, quantity) ==
    [current_bar EXCEPT !.high = Max(current_bar.high, price),
                        !.low = Max(current_bar.low, price),
                        !.close = price,
                        !.volume = @ + quantity,
                        !.trade_count = @ + 1]

\* The update of the open bar by one more tick.
update_bar(current_bar, price, quantity) ==
    [current_bar EXCEPT !.high = Max(current_bar.high, price),
                        !.low = Min(current_bar.low, price),
                        !.close = price,
                        !.volume = @ + quantity,
                        !.trade_count = @ + 1]

process_trade_for_timeframe(st, trade_data, timeframe) ==
    LET symbol == trade_data.symbol
        bucket_time == get_bucket_time(trade_data.timestamp, timeframe)
        current_bar == st.current_bars[symbol][timeframe]
    IN  IF current_bar = NoBar \/ current_bar.bucket_time # bucket_time
        THEN LET st1 == IF current_bar # NoBar
                        THEN complete_bar(st, symbol, timeframe, current_bar)
                        ELSE st
             IN  [st1 EXCEPT !.current_bars[symbol][timeframe] =
                    init_bar(symbol, timeframe, bucket_time,
                             trade_data.price, trade_data.quantity)]
        ELSE [st EXCEPT !.current_bars[symbol][timeframe] =
                update_bar(current_bar, trade_data.price, trade_data.quantity)]

\* process_trade() for a tick the quality checker has accepted.
process_trade(st, trade_data) ==
    IF trade_data.symbol = "" THEN st
    ELSE process_trade_for_timeframe(st, trade_data, base_timeframe)

(***************************************************************************)
(* Inputs of the bar builder                                               *)
(***************************************************************************)
MaxTicks == 5
MaxBars == 6

Tick(symbol, timestamp, price, quantity) ==
    [symbol |-> symbol, timestamp |-> timestamp, price |-> price,
     quantity |-> quantity]

\* Accepted ticks (price > 0, quantity >= 0): the ticks of the bar-closure
\* scenario, a late tick of bucket 0 with zero quantity, ticks of the next
\* hour, and ticks of a second symbol.
Feed ==
    { Tick("BTC", 600, 100, 1), Tick("BTC", 601, 101, 1),
      Tick("BTC", 604, 99, 1),  Tick("BTC", 609, 102, 1),
      Tick("BTC", 1200, 103, 1), Tick("BTC", 599, 100, 0),
      Tick("BTC", 36000, 98, 2), Tick("BTC", 36600, 97, 1),
      Tick("ETH", 600, 5, 1) }

Candle(symbol, bucket_time, o, h, l, c, v, n) ==
    [symbol |-> symbol, timeframe |-> base_timeframe,
     bucket_time |-> bucket_time, open |-> o, high |-> h, low |-> l,
     close |-> c, volume |-> v, trade_count |-> n, completed |-> FALSE]

\* Base candles handed to _complete_bar: the five candles of the roll-up
\* scenario, the first candles of the next 5m and 15m buckets, and a late
\* candle of bucket 60.
CandleFeed ==
    { Candle("BTC", 0, 10, 12, 9, 11, 1, 4),
      Candle("BTC", 60, 11, 13, 10, 12, 2, 4),
      Candle("BTC", 120, 12, 14, 11, 13, 3, 4),
      Candle("BTC", 180, 13, 15, 12, 14, 4, 4),
      Candle("BTC", 240, 14, 16, 13, 15, 5, 4),
      Candle("BTC", 300, 15, 17, 14, 16, 6, 4),
      Candle("BTC", 900, 8, 20, 7, 9, 0, 1) }

Last(seq) == seq[Len(seq)]

\* The base candles rolled into the candles of one symbol, after base candle
\* `base` was completed in state st: [open |-> ..., done |-> ...].
RollObs(st, symbol, base) ==
    LET turned(tf) ==
            /\ st.current_bars[symbol][tf] # NoBar
            /\ st.current_bars[symbol][tf].bucket_time
                  # get_bucket_time(base.bucket_time * Scale, tf)
        fresh(tf) == st.current_bars[symbol][tf] = NoBar \/ turned(tf)
    IN  [open |-> [tf \in Timeframes |->
                    IF tf = base_timeframe THEN openBases[symbol][tf]
                    ELSE IF fresh(tf) THEN <<base>>
                    ELSE Append(openBases[symbol][tf], base)],
         done |-> [tf \in Timeframes |->
                    IF tf # base_timeframe /\ turned(tf)
                    THEN Append(doneBases[symbol][tf], openBases[symbol][tf])
                    ELSE doneBases[symbol][tf]]]

\* One accepted tick arrives on the trades channel: process_trade().
ProcessTrade(trade_data) ==
    /\ fed < MaxTicks
    /\ fed' = fed + 1
    /\ builder' = process_trade(builder, trade_data)
    /\ LET s == trade_data.symbol
           cur == builder.current_bars[s][base_timeframe]
           turned == cur # NoBar
                     /\ cur.bucket_time
                          # get_bucket_time(trade_data.timestamp, base_timeframe)
           obs == RollObs(builder, s,
                          Last(builder'.completed_bars_cache[s][base_timeframe]))
       IN  /\ tickLog' = [tickLog EXCEPT ![s] = Append(@, trade_data)]
           /\ openTicks' = [openTicks EXCEPT ![s] =
                               IF cur = NoBar \/ turned THEN <<trade_data>>
                               ELSE Append(@, trade_data)]
           /\ doneTicks' = [doneTicks EXCEPT ![s] =
                               IF turned THEN Append(@, openTicks[s]) ELSE @]
           /\ openBases' = IF turned THEN [openBases EXCEPT ![s] = obs.open]
                           ELSE openBases
           /\ doneBases' = IF turned THEN [doneBases EXCEPT ![s] = obs.done]
                           ELSE doneBases
    /\ UNCHANGED <<cbVars, apiVars, backVars, extVars>>

\* One base candle closes: _complete_bar() on the base timeframe.
CompleteBaseBar(bar) ==
    /\ fed < MaxBars
    /\ fed' = fed + 1
    /\ builder' = complete_bar(builder, bar.symbol, base_timeframe, bar)
    /\ LET obs == RollObs(builder, bar.symbol,
                          Last(builder'.completed_bars_cache[bar.symbol][base_timeframe]))
       IN  /\ openBases' = [openBases EXCEPT ![bar.symbol] = obs.open]
           /\ doneBases' = [doneBases EXCEPT ![bar.symbol] = obs.done]
    /\ UNCHANGED <<tickLog, openTicks, doneTicks>>
    /\ UNCHANGED <<cbVars, apiVars, backVars, extVars>>

(***************************************************************************)
(* TokenBucketRateLimiter (api/rate_limiter.py)                            *)
(* refill_rate is rate / period tokens per second and the clock is read in *)
(* whole seconds, so every token count is a multiple of 1 / period: the    *)
(* model keeps token counts multiplied by period (capacity is              *)
(* rate * period, a cost of c tokens is c * period).                       *)
(***************************************************************************)
\* Configurations: rate = 0 as in test_zero_rate_denies_all, and two small
\* positive rates instead of the tests' 5 and 10; period 2 s instead of 60 s.
Rates == {0, 2, 3}
Period == 2
Clients == {"192.168.1.1", "192.168.1.2"}

\* Bounds of the rate limiter model.
MaxCost == 3
MaxClock == 4
MaxCalls == 3
NumRequests == 3
Costs == 1..MaxCost
Requests == 1..NumRequests

\* The limiter before __init__, an absent key, a free request slot.
NoLimiter == [rate |-> None]
NoKey == [last_refill |-> None]
Idle == [client_id |-> "none"]

TokenBucketRateLimiter(rate, period) == [rate |-> rate, period |-> period]

\* redis.client.hgetall(key): {} for a key that was never written, that was
\* deleted, or whose time to live (expire(key, period * 2)) has run out.
hgetall(store, client_id, t) ==
    IF store[client_id] = NoKey THEN NoKey
    ELSE IF t >= store[client_id].expire_at THEN NoKey
    ELSE store[client_id]

\* min(self.rate, tokens + time_elapsed * self.refill_rate)
refill(lim, bucket_data, current_time) ==
    Min(lim.rate * lim.period,
        bucket_data.tokens + (current_time - bucket_data.last_refill) * lim.rate)

retry_after_floor(lim, cost, tokens) ==
    (cost * lim.period - tokens) \div lim.rate

\* int(tokens_needed / self.refill_rate) + 1, for tokens_needed > 0.
retry_after(lim, cost, tokens) ==
    ((cost * lim.period - tokens) \div lim.rate) + 1

\* The decision of is_allowed on what hgetall returned: the answer, whether
\* the bucket is written and with how many tokens, and the token count the
\* decision was taken on (seen).  With rate = 0 the division of the deny
\* branch raises ZeroDivisionError, which the handler catches to allow.
is_allowed(lim, bucket_data, current_time, cost) ==
    IF bucket_data = NoKey
    THEN [allowed |-> TRUE, retry_after |-> None, write |-> TRUE,
          tokens |-> (lim.rate - cost) * lim.period,
          seen |-> lim.rate * lim.period]
    ELSE LET tokens == refill(lim, bucket_data, current_time) IN
         IF tokens >= cost * lim.period
         THEN [allowed |-> TRUE, retry_after |-> None, write |-> TRUE,
               tokens |-> tokens - cost * lim.period, seen |-> tokens]
         ELSE IF lim.rate = 0
         THEN [allowed |-> TRUE, retry_after |-> None, write |-> FALSE,
               tokens |-> tokens, seen |-> tokens]
         ELSE [allowed |-> FALSE,
               retry_after |-> retry_after(lim, cost, tokens),
               write |-> FALSE, tokens |-> tokens, seen |-> tokens]

\* hset(key, {tokens, last_refill}) followed by expire(key, period * 2).
hset(store, lim, client_id, tokens, current_time, t) ==
    [store EXCEPT ![client_id] =
        [tokens |-> tokens, last_refill |-> current_time,
         expire_at |-> t + lim.period * 2]]

\* Observation of a client's requests since one found the bucket full
\* (absent, or refilled to capacity) with no other request in flight.
BurstInit ==
    [born |-> 0, fresh |-> FALSE, n |-> 0, done |-> 0, granted |-> 0,
     unit |-> TRUE, still |-> TRUE]

BurstBegin(b, lim, bucket_data, inflight, cost, t) ==
    LET full == IF bucket_data = NoKey THEN TRUE
                ELSE refill(lim, bucket_data, t) >= lim.rate * lim.period
    IN  IF full /\ ~inflight
        THEN [born |-> t, fresh |-> (bucket_data = NoKey), n |-> 1,
              done |-> 0, granted |-> 0, unit |-> (cost = 1), still |-> TRUE]
        ELSE [b EXCEPT !.n = @ + 1,
                       !.unit = @ /\ cost = 1,
                       !.still = @ /\ t = b.born]

BurstEnd(b, allowed) ==
    [b EXCEPT !.done = @ + 1,
              !.granted = @ + (IF allowed THEN 1 ELSE 0)]

Decision(q, res) ==
    [op |-> "is_allowed", client_id |-> q.client_id, cost |-> q.cost,
     allowed |-> res.allowed, retry_after |-> res.retry_after,
     tokens |-> res.seen, t |-> q.current_time]

InFlight(client_id) == \E r \in Requests : rl_pc[r].client_id = client_id

\* TokenBucketRateLimiter.__init__ (built once at start-up).
NewLimiter(rate) ==
    /\ limiter = NoLimiter
    /\ limiter' = TokenBucketRateLimiter(rate, Period)
    /\ UNCHANGED <<redis, rl_now, rl_pc, rl_calls, rlBurst, rlLast>>
    /\ UNCHANGED <<cbVars, barVars, backVars, alertVars, wsVars, extVars>>

\* is_allowed up to the reply of hgetall: the clock is read and the bucket
\* is fetched.
HGetAll(r, client_id, cost) ==
    /\ limiter # NoLimiter
    /\ rl_pc[r] = Idle
    /\ rl_calls < MaxCalls
    /\ rl_calls' = rl_calls + 1
    /\ LET bucket_data == hgetall(redis, client_id, rl_now)
           b == BurstBegin(rlBurst[client_id], limiter, bucket_data,
                           InFlight(client_id), cost, rl_now)
       IN  /\ rlBurst' = [rlBurst EXCEPT ![client_id] = b]
           /\ rl_pc' = [rl_pc EXCEPT ![r] =
                           [client_id |-> client_id, cost |-> cost,
                            current_time |-> rl_now,
                            bucket_data |-> bucket_data]]
    /\ UNCHANGED <<limiter, redis, rl_now, rlLast>>
    /\ UNCHANGED <<cbVars, barVars, backVars, alertVars, wsVars, extVars>>

\* is_allowed from the reply of hgetall to its return.
Decide(r) ==
    /\ rl_pc[r] # Idle
    /\ LET q == rl_pc[r]
           res == is_allowed(limiter, q.bucket_data, q.current_time, q.cost)
       IN  /\ redis' = IF res.write
                       THEN hset(redis, limiter, q.client_id, res.tokens,
                                 q.current_time, rl_now)
                       ELSE redis
           /\ rlBurst' = [rlBurst EXCEPT ![q.client_id] = BurstEnd(@, res.allowed)]
           /\ rlLast' = Decision(q, res)
    /\ rl_pc' = [rl_pc EXCEPT ![r] = Idle]
    /\ UNCHANGED <<limiter, rl_now, rl_calls>>
    /\ UNCHANGED <<cbVars, barVars, backVars, alertVars, wsVars, extVars>>

\* One whole call of is_allowed with no other call in flight.
IsAllowed(client_id, cost) ==
    /\ limiter # NoLimiter
    /\ \A r \in Requests : rl_pc[r] = Idle
    /\ rl_calls < MaxCalls
    /\ rl_calls' = rl_calls + 1
    /\ LET bucket_data == hgetall(redis, client_id, rl_now)
           q == [client_id |-> client_id, cost |-> cost,
                 current_time |-> rl_now, bucket_data |-> bucket_data]
           res == is_allowed(limiter, bucket_data, rl_now, cost)
           b == BurstBegin(rlBurst[client_id], limiter, bucket_data,
                           FALSE, cost, rl_now)
       IN  /\ redis' = IF res.write
                       THEN hset(redis, limiter, client_id, res.tokens,
                                 rl_now, rl_now)
                       ELSE redis
           /\ rlBurst' = [rlBurst EXCEPT ![client_id] = BurstEnd(b, res.allowed)]
           /\ rlLast' = Decision(q, res)
    /\ UNCHANGED <<limiter, rl_now, rl_pc>>
    /\ UNCHANGED <<cbVars, barVars, backVars, alertVars, wsVars, extVars>>

\* TokenBucketRateLimiter.reset: the key is deleted.
ResetLimit(client_id) ==
    /\ limiter # NoLimiter
    /\ redis[client_id] # NoKey
    /\ redis' = [redis EXCEPT ![client_id] = NoKey]
    /\ UNCHANGED <<limiter, rl_now, rl_pc, rl_calls, rlBurst, rlLast>>
    /\ UNCHANGED <<cbVars, barVars, backVars, alertVars, wsVars, extVars>>

\* The clock moves on by a second.
RLAdvance ==
    /\ rl_now < MaxClock
    /\ rl_now' = rl_now + 1
    /\ UNCHANGED <<limiter, redis, rl_pc, rl_calls, rlBurst, rlLast>>
    /\ UNCHANGED <<cbVars, barVars, backVars, alertVars, wsVars, extVars>>

(***************************************************************************)
(* AlertManager (api/alert_manager.py) over the alerts table of            *)
(* storage/timescale_manager.py.  Time is counted in units of 10 s, so the *)
(* cooldown of 60 s is 6 and the cache time to live of 300 s is 30.        *)
(***************************************************************************)
cache_ttl == 30
AlertIds == <<"a1", "a2", "a3">>
\* The (price, indicators) updates the indicator engine hands over.
Updates ==
    { [price |-> 99, indicators |-> [rsi |-> None]],
      [price |-> 101, indicators |-> [rsi |-> 80]],
      [price |-> 102, indicators |-> [rsi |-> 60]],
      [price |-> 103, indicators |-> [rsi |-> None]] }

\* Bounds of the alert model.
MaxAlertTime == 7
MaxChecks == 3

\* The Alert dataclass as create_alert receives it.
Alert(alert_id, symbol, condition, threshold, cooldown_seconds, one_time) ==
    [alert_id |-> alert_id, symbol |-> symbol, condition |-> condition,
     threshold |-> threshold, cooldown_seconds |-> cooldown_seconds,
     one_time |-> one_time, is_active |-> TRUE,
     last_triggered_at |-> None, trigger_count |-> 0]

\* The rules users create: PRICE_ABOVE 100 with a cooldown of 60 s, a
\* one-shot PRICE_ABOVE 100 with a cooldown of 10 s, RSI_ABOVE 70 with a
\* cooldown of 20 s on another symbol.
Rules ==
    [id \in {"a1", "a2", "a3"} |->
        CASE id = "a1" -> Alert("a1", "BTC", "price_above", 100, 6, FALSE)
          [] id = "a2" -> Alert("a2", "BTC", "price_above", 100, 1, TRUE)
          [] OTHER     -> Alert("a3", "ETH", "rsi_above", 70, 2, FALSE)]

\* No row in the alerts table, no entry in _alerts_cache.
NoRow == [alert_id |-> "none"]
NoCache == <<[alert_id |-> "none"]>>

\* The condition part of _should_trigger (MACD_CROSSOVER and VOLUME_SPIKE
\* need indicators that no rule of Rules uses).
condition_met(alert, price, indicators) ==
    CASE alert.condition = "price_above" -> price > alert.threshold
      [] alert.condition = "price_below" -> price < alert.threshold
      [] alert.condition = "rsi_above" ->
            IF indicators.rsi # None THEN indicators.rsi > alert.threshold
            ELSE FALSE
      [] alert.condition = "rsi_below" ->
            IF indicators.rsi # None THEN indicators.rsi < alert.threshold
            ELSE FALSE
      [] OTHER -> FALSE

should_trigger_no_cooldown(alert, price, indicators, utcnow) ==
    IF ~alert.is_active THEN FALSE
    ELSE IF alert.one_time /\ alert.trigger_count > 0 THEN FALSE
    ELSE condition_met(alert, price, indicators)

should_trigger(alert, price, indicators, utcnow) ==
    IF ~alert.is_active THEN FALSE
    ELSE IF /\ alert.last_triggered_at # None
            /\ utcnow < alert.last_triggered_at + alert.cooldown_seconds
         THEN FALSE
    ELSE IF alert.one_time /\ alert.trigger_count > 0 THEN FALSE
    ELSE condition_met(alert, price, indicators)

update_alert_state_stays_active(alert, utcnow) ==
    [alert EXCEPT !.last_triggered_at = utcnow,
                  !.trigger_count = @ + 1]

\* The fields _update_alert_state sets before it writes the rule back.
update_alert_state(alert, utcnow) ==
    [alert EXCEPT !.last_triggered_at = utcnow,
                  !.trigger_count = @ + 1,
                  !.is_active = IF alert.one_time THEN FALSE ELSE @]

\* db.update_alert: UPDATE alerts SET ... WHERE alert_id = ...
db_update_alert(db, alert) ==
    IF db[alert.alert_id] = NoRow THEN db
    ELSE [db EXCEPT ![alert.alert_id] = alert]

\* db.get_active_alerts: the active rows of the symbol, in creation order
\* (here the order of AlertIds).
RECURSIVE db_get_active_alerts_from(_, _, _)
db_get_active_alerts_from(db, symbol, i) ==
    IF i > Len(AlertIds) THEN <<>>
    ELSE LET row == db[AlertIds[i]]
             rest == db_get_active_alerts_from(db, symbol, i + 1)
         IN  IF row # NoRow /\ row.symbol = symbol /\ row.is_active
             THEN <<row>> \o rest
             ELSE rest

db_get_active_alerts(db, symbol) == db_get_active_alerts_from(db, symbol, 1)

\* _get_active_alerts: the cached list while it is younger than the time
\* to live, else the rows of the store, which are cached.
get_active_alerts(cache, refreshed, db, symbol, utcnow) ==
    IF cache[symbol] # NoCache /\ utcnow - refreshed < cache_ttl
    THEN [alerts |-> cache[symbol], cache |-> cache, refreshed |-> refreshed,
          loaded |-> FALSE]
    ELSE LET alerts == db_get_active_alerts(db, symbol) IN
         [alerts |-> alerts, cache |-> [cache EXCEPT ![symbol] = alerts],
          refreshed |-> utcnow, loaded |-> TRUE]

\* The loop of check_alerts from the i-th rule on: st holds the store, the
\* cache and the rules triggered so far.
RECURSIVE check_alerts_from(_, _, _, _, _, _)
check_alerts_from(st, alerts, i, price, indicators, utcnow) ==
    IF i > Len(alerts) THEN st
    ELSE LET alert == alerts[i] IN
         IF should_trigger(alert, price, indicators, utcnow)
         THEN check_alerts_from(
                 [db |-> db_update_alert(st.db, update_alert_state(alert, utcnow)),
                  cache |-> [st.cache EXCEPT ![alert.symbol] = NoCache],
                  triggered |-> st.triggered \cup {alert.alert_id}],
                 alerts, i + 1, price, indicators, utcnow)
         ELSE check_alerts_from(st, alerts, i + 1, price, indicators, utcnow)

\* Observation: per rule, the number of fires, the time of the last one,
\* the time between the last two, the number of evaluations since the last
\* fire (it included) that met the condition, and whether an evaluation
\* that met the condition outside the cooldown of a rule that may still
\* fire went by without a fire.
FiresInit ==
    [count |-> 0, last |-> None, gap |-> None, hits |-> 0, missed |-> FALSE]

FiresAfter(f, rule, fired, met, utcnow) ==
    IF fired
    THEN [count |-> f.count + 1, last |-> utcnow,
          gap |-> IF f.last = None THEN None ELSE utcnow - f.last,
          hits |-> 1, missed |-> f.missed]
    ELSE [f EXCEPT !.hits = IF met /\ f.count > 0 THEN @ + 1 ELSE @,
                   !.missed = \/ @
                              \/ /\ met
                                 /\ \/ f.count = 0
                                    \/ /\ ~rule.one_time
                                       /\ utcnow - f.last >= rule.cooldown_seconds]

\* AlertManager.create_alert: the rule is inserted and the cache of its
\* symbol is dropped.
CreateAlert(id) ==
    /\ db_alerts[id] = NoRow
    /\ alFires[id].count = 0
    /\ db_alerts' = [db_alerts EXCEPT ![id] = Rules[id]]
    /\ alerts_cache' = [alerts_cache EXCEPT ![Rules[id].symbol] = NoCache]
    /\ UNCHANGED <<last_cache_refresh, al_now, al_checks, alFires, alLast>>
    /\ UNCHANGED <<cbVars, barVars, backVars, rlVars, wsVars, extVars>>

\* AlertManager.check_alerts, one whole evaluation.
CheckAlerts(symbol, price, indicators) ==
    /\ al_checks < MaxChecks
    /\ al_checks' = al_checks + 1
    /\ LET got == get_active_alerts(alerts_cache, last_cache_refresh,
                                    db_alerts, symbol, al_now)
           st == check_alerts_from(
                    [db |-> db_alerts, cache |-> got.cache, triggered |-> {}],
                    got.alerts, 1, price, indicators, al_now)
       IN  /\ db_alerts' = st.db
           /\ alerts_cache' = st.cache
           /\ last_cache_refresh' = got.refreshed
           /\ alFires' =
                 [id \in DOMAIN alFires |->
                    IF db_alerts[id] # NoRow /\ db_alerts[id].symbol = symbol
                    THEN FiresAfter(alFires[id], Rules[id], id \in st.triggered,
                                    condition_met(Rules[id], price, indicators),
                                    al_now)
                    ELSE alFires[id]]
           /\ alLast' = [op |-> "check_alerts", symbol |-> symbol,
                         triggered |-> st.triggered, loaded |-> got.loaded]
    /\ UNCHANGED al_now
    /\ UNCHANGED <<cbVars, barVars, backVars, rlVars, wsVars, extVars>>

\* datetime.utcnow() moves on by 10 s.
AlertAdvance ==
    /\ al_now < MaxAlertTime
    /\ al_now' = al_now + 1
    /\ UNCHANGED <<db_alerts, alerts_cache, last_cache_refresh, al_checks,
                   alFires, alLast>>
    /\ UNCHANGED <<cbVars, barVars, backVars, rlVars, wsVars, extVars>>

(***************************************************************************)
(* ConnectionManager (api/websocket.py).  Time is counted in units of      *)
(* 100 ms, so batch_window is 1 and throttle_interval is 10.  The clock    *)
(* starts at WsEpoch: time.time() is far from the 0 that connect() writes  *)
(* as a new client's last send time.  The ring of a client holds           *)
(* queue_maxlen messages (100 in the source, 2 here).  A message is        *)
(* identified by the number of its broadcast.                              *)
(***************************************************************************)
throttle_interval == 10
batch_window == 1
queue_maxlen == 2
WsEpoch == throttle_interval
WsClients == {"ws1", "ws2"}

\* Bounds of the fan-out model.
MaxWsTime == 11
MaxBroadcasts == 3

\* websocket not in message_queues.
NoQueue == <<None>>

ConnectionManagerInit ==
    [active_connections |-> [s \in Symbols |-> {}],
     message_queues |-> [c \in WsClients |-> NoQueue],
     last_send_time |-> [c \in WsClients |-> None]]

\* deque(maxlen=100).append on message_queues[websocket] (a defaultdict).
ring_append(queue, message) ==
    LET q == Append(IF queue = NoQueue THEN <<>> ELSE queue, message) IN
    IF Len(q) > queue_maxlen THEN Tail(q) ELSE q

\* ConnectionManager.connect
connect(cm, websocket, symbol) ==
    [cm EXCEPT !.active_connections[symbol] = @ \cup {websocket},
               !.last_send_time[websocket] = 0]

\* ConnectionManager.disconnect
disconnect(cm, websocket, symbol) ==
    [cm EXCEPT !.active_connections[symbol] = @ \ {websocket},
               !.last_send_time[websocket] = None,
               !.message_queues[websocket] = NoQueue]

RECURSIVE disconnect_all(_, _, _)
disconnect_all(cm, websockets, symbol) ==
    IF websockets = {} THEN cm
    ELSE LET w == CHOOSE w \in websockets : TRUE IN
         disconnect_all(disconnect(cm, w, symbol), websockets \ {w}, symbol)

\* last_send_time.get(websocket, 0)
last_send(cm, websocket) ==
    IF cm.last_send_time[websocket] = None THEN 0
    ELSE cm.last_send_time[websocket]

broadcast_no_stamp(cm, socks, symbol, message, current_time) ==
    LET conns == cm.active_connections[symbol]
        throttled == {w \in conns :
                         current_time - last_send(cm, w) < throttle_interval}
        sent == {w \in conns \ throttled : socks[w] = "open"}
        disconnected == conns \ (throttled \cup sent)
        after == [cm EXCEPT
                    !.message_queues =
                        [w \in WsClients |->
                            IF w \in throttled THEN ring_append(@[w], message)
                            ELSE @[w]]]
    IN  [cm |-> disconnect_all(after, disconnected, symbol),
         sent |-> sent, failed |-> disconnected]

\* ConnectionManager.broadcast(symbol, message, throttle=True): per client
\* the message is queued, or sent and the send time stamped, or the send
\* raises and the client is disconnected after the loop.
broadcast(cm, socks, symbol, message, current_time) ==
    LET conns == cm.active_connections[symbol]
        throttled == {w \in conns :
                         current_time - last_send(cm, w) < throttle_interval}
        sent == {w \in conns \ throttled : socks[w] = "open"}
        disconnected == conns \ (throttled \cup sent)
        after == [cm EXCEPT
                    !.message_queues =
                        [w \in WsClients |->
                            IF w \in throttled THEN ring_append(@[w], message)
                            ELSE @[w]],
                    !.last_send_time =
                        [w \in WsClients |->
                            IF w \in sent THEN current_time ELSE @[w]]]
    IN  [cm |-> disconnect_all(after, disconnected, symbol),
         sent |-> sent, failed |-> disconnected]

\* The clients start_batch_flusher passes to flush_queued_messages.
Registered(cm) == UNION {cm.active_connections[s] : s \in Symbols}

\* flush_queued_messages for every registered client: a non-empty queue is
\* emptied and sent as one frame (the message itself when there is one, a
\* batch otherwise); a send that raises is logged and counted, nothing
\* else.  (After a single message was sent, the read of the unbound
\* `messages` raises too and is logged and counted the same way.)
flush_queued_messages(cm, socks) ==
    LET due == {w \in Registered(cm) :
                   cm.message_queues[w] # NoQueue /\ cm.message_queues[w] # <<>>}
    IN  [cm |-> [cm EXCEPT !.message_queues =
                    [w \in WsClients |-> IF w \in due THEN <<>> ELSE @[w]]],
         flushed |-> {w \in due : socks[w] = "open"},
         batch |-> {w \in due : socks[w] = "open" /\ Len(cm.message_queues[w]) > 1},
         failed |-> {w \in due : socks[w] # "open"}]

\* Observation of an operation: the clients it sent the update to, the
\* clients whose send raised, the clients it sent a flush frame to and
\* those of them whose frame was a batch.
WsEvent(op, symbol, sent, failed, flushed, batch) ==
    [op |-> op, symbol |-> symbol, sent |-> sent, failed |-> failed,
     flushed |-> flushed, batch |-> batch]

\* websocket_endpoint up to the registration of the client.
WsConnect(websocket, symbol) ==
    /\ sock[websocket] = "new"
    /\ sock' = [sock EXCEPT ![websocket] = "open"]
    /\ manager' = connect(manager, websocket, symbol)
    /\ wsLast' = WsEvent("connect", symbol, {}, {}, {}, {})
    /\ UNCHANGED <<ws_now, next_flush, ws_seq, initial_sent>>
    /\ UNCHANGED <<cbVars, barVars, backVars, rlVars, alertVars, extVars>>

\* The peer goes away: from now on every send to the client raises.
PeerGone(websocket) ==
    /\ sock[websocket] = "open"
    /\ sock' = [sock EXCEPT ![websocket] = "broken"]
    /\ UNCHANGED <<manager, ws_now, next_flush, ws_seq, wsLast, initial_sent>>
    /\ UNCHANGED <<cbVars, barVars, backVars, rlVars, alertVars, extVars>>

\* websocket_endpoint: receive_text raises WebSocketDisconnect and the
\* finally block disconnects the client.
EndpointExit(websocket) ==
    /\ sock[websocket] = "broken"
    /\ sock' = [sock EXCEPT ![websocket] = "closed"]
    /\ manager' = LET RECURSIVE drop(_, _)
                      drop(cm, ss) ==
                          IF ss = {} THEN cm
                          ELSE LET s == CHOOSE s \in ss : TRUE IN
                               drop(IF websocket \in cm.active_connections[s]
                                    THEN disconnect(cm, websocket, s) ELSE cm,
                                    ss \ {s})
                  IN  drop(manager, Symbols)
    /\ wsLast' = WsEvent("disconnect", "none", {}, {}, {}, {})
    /\ UNCHANGED <<ws_now, next_flush, ws_seq, initial_sent>>
    /\ UNCHANGED <<cbVars, barVars, backVars, rlVars, alertVars, extVars>>

\* websocket_endpoint after connect: the recent bars and the cached
\* indicators are awaited and the `initial` frame is sent to the client,
\* which connect has registered already.  (When the socket is broken the
\* send fails and the endpoint goes on to its receive loop: EndpointExit.)
SendInitial(websocket) ==
    /\ sock[websocket] = "open"
    /\ websocket \in Registered(manager)
    /\ websocket \notin initial_sent
    /\ initial_sent' = initial_sent \cup {websocket}
    /\ wsLast' = WsEvent("initial", "none", {websocket}, {}, {}, {})
    /\ UNCHANGED <<manager, sock, ws_now, next_flush, ws_seq>>
    /\ UNCHANGED <<cbVars, barVars, backVars, rlVars, alertVars, extVars>>

\* message_handler of start_redis_listener: one chart update is broadcast.
Broadcast(symbol) ==
    /\ ws_seq < MaxBroadcasts
    /\ ws_seq' = ws_seq + 1
    /\ LET r == broadcast(manager, sock, symbol, ws_seq + 1, ws_now)
       IN  /\ manager' = r.cm
           /\ wsLast' = WsEvent("broadcast", symbol, r.sent, r.failed, {}, {})
    /\ UNCHANGED <<sock, ws_now, next_flush, initial_sent>>
    /\ UNCHANGED <<cbVars, barVars, backVars, rlVars, alertVars, extVars>>

\* One turn of start_batch_flusher, batch_window after the previous one.
Flush ==
    /\ ws_now >= next_flush
    /\ next_flush' = ws_now + batch_window
    /\ LET r == flush_queued_messages(manager, sock)
       IN  /\ manager' = r.cm
           /\ wsLast' = WsEvent("flush", "none", {}, r.failed, r.flushed, r.batch)
    /\ UNCHANGED <<sock, ws_now, ws_seq, initial_sent>>
    /\ UNCHANGED <<cbVars, barVars, backVars, rlVars, alertVars, extVars>>

\* 100 ms pass; the flusher is not late.
WsAdvance ==
    /\ ws_now < WsEpoch + MaxWsTime
    /\ ws_now < next_flush
    /\ ws_now' = ws_now + 1
    /\ UNCHANGED <<manager, sock, next_flush, ws_seq, wsLast, initial_sent>>
    /\ UNCHANGED <<cbVars, barVars, backVars, rlVars, alertVars, extVars>>

(***************************************************************************)
(* Pub/sub pipeline: the collectors and the bar builder publish, the       *)
(* processor (processors/main.py) and the API listener subscribe.          *)
(***************************************************************************)
StreamExchanges == {"binance", "alpaca"}
PollExchanges == {"yahoo", "polygon"}

\* Bound of the pipeline model.
MaxPublished == 5

\* BaseCollector.publish_trade: channel = f"trades:{self.exchange}"
trade_channel(exchange) == "trades:" \o exchange

\* The channel a collector publishes an exchange-delivered bar on.
collector_bar_channel(exchange) ==
    IF exchange = "polygon" THEN "bars:completed" ELSE "completed_bars"

\* The timeframe of the bars a collector forwards.
collector_bar_timeframe(exchange) ==
    IF exchange = "polygon" THEN "1d" ELSE "1m"

\* BarBuilder._publish_completed_bar
builder_bar_channel == "completed_bars"

\* pubsub.subscribe of the processor.
processor_channels == {"trades", "bars:completed"}

\* redis_manager.subscribe of the API's listener.
listener_channels == {"chart_updates", "completed_bars"}

\* Redis PUBLISH: a message goes to the subscribers of exactly its channel.
receivers(channel) ==
    (IF channel \in processor_channels THEN {"processor"} ELSE {}) \cup
    (IF channel \in listener_channels THEN {"listener"} ELSE {})

Message(channel, kind, origin, symbol, timeframe, n) ==
    [channel |-> channel, kind |-> kind, origin |-> origin,
     symbol |-> symbol, timeframe |-> timeframe, n |-> n]

\* redis.publish as the processor's connection sees it.
publish(inbox, message) ==
    IF "processor" \in receivers(message.channel)
    THEN Append(inbox, message) ELSE inbox

\* Observation of one publication.
PubEvent(message) ==
    [kind |-> message.kind, origin |-> message.origin,
     channel |-> message.channel, receivers |-> receivers(message.channel)]

\* BinanceCollector._handle_trade, AlpacaCollector trade callback.
StreamTrade(exchange, symbol) ==
    /\ pub_count < MaxPublished
    /\ LET m == Message(trade_channel(exchange), "trade", exchange, symbol,
                        "tick", pub_count + 1)
       IN  /\ proc_inbox' = publish(proc_inbox, m)
           /\ pubLast' = {PubEvent(m)}
    /\ pub_count' = pub_count + 1
    /\ UNCHANGED <<tasks, effects>>
    /\ UNCHANGED <<cbVars, barVars, apiVars, dqVars, colVars, polyVars, extVars>>

\* BinanceCollector._handle_kline (closed kline), AlpacaCollector bar
\* callback.
StreamBar(exchange, symbol) ==
    /\ pub_count < MaxPublished
    /\ LET m == Message(collector_bar_channel(exchange), "bar", exchange,
                        symbol, collector_bar_timeframe(exchange),
                        pub_count + 1)
       IN  /\ proc_inbox' = publish(proc_inbox, m)
           /\ pubLast' = {PubEvent(m)}
    /\ pub_count' = pub_count + 1
    /\ UNCHANGED <<tasks, effects>>
    /\ UNCHANGED <<cbVars, barVars, apiVars, dqVars, colVars, polyVars, extVars>>

\* YahooCollector / PolygonCollector poll of one symbol: the bar is
\* published, then the same data as a trade.
PollSymbol(exchange, symbol) ==
    /\ pub_count + 1 < MaxPublished
    /\ LET b == Message(collector_bar_channel(exchange), "bar", exchange,
                        symbol, collector_bar_timeframe(exchange),
                        pub_count + 1)
           t == Message(trade_channel(exchange), "trade", exchange, symbol,
                        "tick", pub_count + 2)
       IN  /\ proc_inbox' = publish(publish(proc_inbox, b), t)
           /\ pubLast' = {PubEvent(b), PubEvent(t)}
    /\ pub_count' = pub_count + 2
    /\ UNCHANGED <<tasks, effects>>
    /\ UNCHANGED <<cbVars, barVars, apiVars, dqVars, colVars, polyVars, extVars>>

\* BarBuilder._complete_bar publishing the completed candle.
BuilderBar(symbol, timeframe) ==
    /\ pub_count < MaxPublished
    /\ LET m == Message(builder_bar_channel, "bar", "bar_builder", symbol,
                        timeframe, pub_count + 1)
       IN  /\ proc_inbox' = publish(proc_inbox, m)
           /\ pubLast' = {PubEvent(m)}
    /\ pub_count' = pub_count + 1
    /\ UNCHANGED <<tasks, effects>>
    /\ UNCHANGED <<cbVars, barVars, apiVars, dqVars, colVars, polyVars, extVars>>

Effect(message, what) ==
    [symbol |-> message.symbol, timeframe |-> message.timeframe,
     n |-> message.n, what |-> what]

RemoveAt(seq, i) == SubSeq(seq, 1, i - 1) \o SubSeq(seq, i + 1, Len(seq))

loop_ready_spawning(running) == TRUE

\* The processor's loop body is awaited: the next message is taken from
\* pubsub.listen() only when the handling of the previous one has returned.
loop_ready(running) == running = <<>>

\* One turn of `async for message in pubsub.listen()`: a trade is handed
\* to the bar builder, a completed bar starts its handling.
ProcReceive ==
    /\ proc_inbox # <<>>
    /\ loop_ready(tasks)
    /\ LET m == Head(proc_inbox)
       IN  IF m.channel = "trades"
           THEN /\ effects' = Append(effects, Effect(m, "process_trade"))
                /\ UNCHANGED tasks
           ELSE IF m.channel = "bars:completed"
           THEN /\ tasks' = Append(tasks, [bar |-> m, stage |-> "insert_candle"])
                /\ UNCHANGED effects
           ELSE UNCHANGED <<tasks, effects>>
    /\ proc_inbox' = Tail(proc_inbox)
    /\ UNCHANGED <<pub_count, pubLast>>
    /\ UNCHANGED <<cbVars, barVars, apiVars, dqVars, colVars, polyVars, extVars>>

\* The handling of a completed bar up to its next await: insert_candle,
\* then _fetch_recent_bars, then _store_indicators (caching and the chart
\* update are placeholders without effect), then the return.
ProcStep(i) ==
    /\ i \in DOMAIN tasks
    /\ LET task == tasks[i]
       IN  CASE task.stage = "insert_candle" ->
                  /\ effects' = Append(effects, Effect(task.bar, "candle"))
                  /\ tasks' = [tasks EXCEPT ![i].stage = "fetch"]
             [] task.stage = "fetch" ->
                  /\ tasks' = [tasks EXCEPT ![i].stage = "store"]
                  /\ UNCHANGED effects
             [] task.stage = "store" ->
                  /\ effects' = Append(effects, Effect(task.bar, "indicators"))
                  /\ tasks' = RemoveAt(tasks, i)
    /\ UNCHANGED <<proc_inbox, pub_count, pubLast>>
    /\ UNCHANGED <<cbVars, barVars, apiVars, dqVars, colVars, polyVars, extVars>>

\* The handling ends early: an exception caught by the loop, or too few
\* bars for the indicators.
ProcFail(i) ==
    /\ i \in DOMAIN tasks
    /\ tasks' = RemoveAt(tasks, i)
    /\ UNCHANGED <<proc_inbox, effects, pub_count, pubLast>>
    /\ UNCHANGED <<cbVars, barVars, apiVars, dqVars, colVars, polyVars, extVars>>

(***************************************************************************)
(* DataQualityChecker (processors/data_quality.py).  Prices are whole      *)
(* numbers; the age of a tick, time.time() - timestamp, is an input in     *)
(* seconds; a quality score is the exact fraction num / 10^exp.            *)
(***************************************************************************)
z_score_threshold == 3
percentage_change_threshold_pct == 10
max_age_seconds == 60
max_clock_skew == 5
volume_multiplier_threshold == 100
history_window_size == 3
min_history == 2

\* Bound of the quality model.
MaxValidations == 3

Prices == {0, 100, 105, 111}
Quantities == {1, 500}
Ages == {0, 61, 0 - 6}

Trade(symbol, price, quantity, age) ==
    [symbol |-> symbol, price |-> price, quantity |-> quantity, age |-> age]

Passed == [ok |-> TRUE, error |-> "none"]
Failed(error) == [ok |-> FALSE, error |-> error]

RECURSIVE Sum(_)
Sum(seq) == IF seq = <<>> THEN 0 ELSE Head(seq) + Sum(Tail(seq))

RECURSIVE SumSq(_)
SumSq(seq) == IF seq = <<>> THEN 0 ELSE Head(seq) * Head(seq) + SumSq(Tail(seq))

Abs(x) == IF x < 0 THEN 0 - x ELSE x

\* deque(maxlen=history_window_size).append
history_append(history, value) ==
    LET h == Append(history, value) IN
    IF Len(h) > history_window_size THEN Tail(h) ELSE h

\* _check_valid_values
check_valid_values(trade) ==
    IF trade.price <= 0 THEN Failed("Invalid price")
    ELSE IF trade.quantity < 0 THEN Failed("Invalid quantity")
    ELSE Passed

\* _check_data_freshness
check_data_freshness(trade) ==
    IF trade.age > max_age_seconds THEN Failed("Data too old")
    ELSE IF trade.age < 0 - max_clock_skew THEN Failed("Data from future")
    ELSE Passed

\* _check_price_anomaly on the symbol's price history: with n prices of
\* sum S and sum of squares Q, std > 0 is n*Q - S*S > 0 and
\* |price - mean| / std > z is (n*price - S)^2 > z^2 * (n*Q - S*S).
check_price_anomaly(prices, trade) ==
    IF Len(prices) < min_history THEN Passed
    ELSE LET n == Len(prices)
             S == Sum(prices)
             nvar == n * SumSq(prices) - S * S
             d == n * trade.price - S
             last_price == prices[n]
         IN  IF nvar > 0 /\ d * d > z_score_threshold * z_score_threshold * nvar
             THEN Failed("Price anomaly")
             ELSE IF last_price > 0 /\
                     100 * Abs(trade.price - last_price) >
                        percentage_change_threshold_pct * last_price
                  THEN Failed("Large price change")
                  ELSE Passed

\* _check_volume_sanity on the symbol's volume history.
check_volume_sanity(volumes, trade) ==
    IF Len(volumes) < min_history THEN Passed
    ELSE IF Sum(volumes) > 0 /\
            trade.quantity * Len(volumes) >
               volume_multiplier_threshold * Sum(volumes)
         THEN Failed("Abnormal volume")
         ELSE Passed

\* The list `checks` of validate_trade, all four evaluated, in order.
CheckNames == <<"valid_values", "data_freshness", "price_anomaly", "volume_sanity">>

checks(prices, volumes, trade) ==
    <<check_valid_values(trade), check_data_freshness(trade),
      check_price_anomaly(prices, trade), check_volume_sanity(volumes, trade)>>

NoReason == <<"none", "none">>

\* The loop of validate_trade over the results from position i on: the
\* first failed check returns (False, "<check_name>: <error_msg>").
RECURSIVE first_failure(_, _)
first_failure(results, i) ==
    IF i > Len(results) THEN [valid |-> TRUE, reason |-> NoReason]
    ELSE IF ~results[i].ok
         THEN [valid |-> FALSE, reason |-> <<CheckNames[i], results[i].error>>]
         ELSE first_failure(results, i + 1)

\* 10^n
RECURSIVE Pow(_, _)
Pow(b, n) == IF n = 0 THEN 1 ELSE b * Pow(b, n - 1)

ScoreInit == [num |-> 1, exp |-> 0]

update_quality_score_alpha_fifth(score, passed) ==
    IF passed THEN [num |-> 8 * score.num + 2 * Pow(10, score.exp), exp |-> score.exp + 1]
    ELSE [num |-> 8 * score.num, exp |-> score.exp + 1]

\* _update_quality_score with alpha = 0.1:
\* new = current + alpha * (target - current) = (9 * current + target) / 10
update_quality_score(score, passed) ==
    IF passed THEN [num |-> 9 * score.num + Pow(10, score.exp), exp |-> score.exp + 1]
    ELSE [num |-> 9 * score.num, exp |-> score.exp + 1]

validate_trade_always_records(dq, trade) ==
    LET symbol == trade.symbol
        r == first_failure(checks(dq.price_history[symbol],
                                  dq.volume_history[symbol], trade), 1)
    IN  [valid |-> r.valid, reason |-> r.reason,
         dq |-> [dq EXCEPT
                   !.quality_scores[symbol] = update_quality_score(@, r.valid),
                   !.price_history[symbol] = history_append(@, trade.price),
                   !.volume_history[symbol] = history_append(@, trade.quantity)]]

\* DataQualityChecker.validate_trade
validate_trade(dq, trade) ==
    LET symbol == trade.symbol
        r == first_failure(checks(dq.price_history[symbol],
                                  dq.volume_history[symbol], trade), 1)
    IN  IF ~r.valid
        THEN [valid |-> FALSE, reason |-> r.reason,
              dq |-> [dq EXCEPT
                        !.quality_scores[symbol] = update_quality_score(@, FALSE)]]
        ELSE [valid |-> TRUE, reason |-> NoReason,
              dq |-> [dq EXCEPT
                        !.quality_scores[symbol] = update_quality_score(@, TRUE),
                        !.price_history[symbol] = history_append(@, trade.price),
                        !.volume_history[symbol] = history_append(@, trade.quantity)]]

DataQualityCheckerInit ==
    [price_history |-> [s \in Symbols |-> <<>>],
     volume_history |-> [s \in Symbols |-> <<>>],
     quality_scores |-> [s \in Symbols |-> ScoreInit]]

\* BarBuilder.process_trade hands one tick to validate_trade.
ValidateTrade(symbol, price, quantity, age) ==
    /\ dq_count < MaxValidations
    /\ LET trade == Trade(symbol, price, quantity, age)
           r == validate_trade(checker, trade)
       IN  /\ checker' = r.dq
           /\ dqLast' = [trade |-> trade, valid |-> r.valid, reason |-> r.reason]
           /\ dqStream' = [dqStream EXCEPT ![symbol] = Append(@, r.valid)]
    /\ dq_count' = dq_count + 1
    /\ UNCHANGED <<cbVars, barVars, apiVars, pipeVars, colVars, polyVars, extVars>>

(***************************************************************************)
(* BaseCollector run loop (collectors/base_collector.py).  Time is in      *)
(* seconds; the collector's breaker is configured as the breaker above     *)
(* and max_reconnect_delay is scaled down.                                 *)
(***************************************************************************)
reconnect_delay == 1
reconnect_multiplier == 2
max_reconnect_delay == 4

\* Bounds of the collector model.
MaxColTime == 5
MaxAttempts == 4

Outcomes == {"ok", "error"}

BaseCollectorInit ==
    [is_running |-> TRUE, is_connected |-> FALSE,
     current_reconnect_delay |-> reconnect_delay,
     errors_count |-> 0, reconnections_count |-> 0]

\* connect_with_circuit_breaker: circuit_breaker.call(_connect_internal).
\* The breaker rejects the call, or connect() runs and raises or returns;
\* _connect_internal then marks the collector connected and resets the
\* reconnect delay.
connect_with_circuit_breaker(col, cb, t, outcome) ==
    LET adm == call_admission(cb, t) IN
    IF ~adm.admitted
    THEN [result |-> "open", retry_after |-> adm.retry_after,
          breaker |-> adm.breaker, col |-> col]
    ELSE IF outcome = "ok"
    THEN [result |-> "connected", retry_after |-> 0,
          breaker |-> on_success(adm.breaker),
          col |-> [col EXCEPT !.is_connected = TRUE,
                              !.current_reconnect_delay = reconnect_delay]]
    ELSE [result |-> "failed", retry_after |-> 0,
          breaker |-> on_failure(adm.breaker, t), col |-> col]

\* The `except Exception` handler of start() up to the sleep of
\* reconnect(): the error is counted, the collector marked disconnected,
\* the reconnection counted.
handle_error(col) ==
    [col EXCEPT !.errors_count = @ + 1,
                !.is_connected = FALSE,
                !.reconnections_count = @ + 1]

\* reconnect(): the delay for the next time.
next_delay(col) ==
    Min(col.current_reconnect_delay * reconnect_multiplier, max_reconnect_delay)

\* Observation: the error not yet followed by a connect attempt (when it
\* was raised, the reconnect delay at that time, whether errors_count
\* counted it, whether disconnect() was called since).
NoPendingError ==
    [pending |-> FALSE, at |-> 0, delay |-> 0, counted |-> FALSE,
     disconnected |-> FALSE]

PendingError(t, delay, counted) ==
    [pending |-> TRUE, at |-> t, delay |-> delay, counted |-> counted,
     disconnected |-> FALSE]

ColEvent(op, result, t, err, delay) ==
    [op |-> op, result |-> result, at |-> t, err |-> err, delay |-> delay]

\* start(), top of the loop: connect_with_circuit_breaker().  On success
\* the symbols are subscribed, the health loop task is created and run()
\* entered; CircuitBreakerOpenError
\* sleeps retry_after; any other exception goes to the handler, which ends
\* in the sleep of reconnect().
Connect(outcome) ==
    /\ col_pc = "top"
    /\ collector.is_running
    /\ col_attempts < MaxAttempts
    /\ LET r == connect_with_circuit_breaker(collector, col_breaker, col_now, outcome)
       IN  /\ col_breaker' = r.breaker
           /\ col_attempts' = IF r.result = "open" THEN col_attempts
                              ELSE col_attempts + 1
           /\ CASE r.result = "connected" ->
                     /\ collector' = r.col
                     /\ col_pc' = "running"
                     /\ col_wake' = col_now
                     /\ colErr' = NoPendingError
                [] r.result = "open" ->
                     /\ collector' = r.col
                     /\ col_pc' = "breaker_sleep"
                     /\ col_wake' = col_now + r.retry_after
                     /\ colErr' = colErr
                [] r.result = "failed" ->
                     /\ collector' = handle_error(r.col)
                     /\ col_pc' = "backoff"
                     /\ col_wake' = col_now + r.col.current_reconnect_delay
                     /\ colErr' = PendingError(col_now,
                                               r.col.current_reconnect_delay, TRUE)
           /\ health_tasks' = IF r.result = "connected" THEN health_tasks + 1
                              ELSE health_tasks
           /\ colLast' = ColEvent(IF r.result = "open" THEN "rejected" ELSE "connect",
                                  r.result, col_now, colErr,
                                  collector'.current_reconnect_delay)
    /\ UNCHANGED col_now
    /\ UNCHANGED <<cbVars, barVars, apiVars, pipeVars, dqVars, polyVars, extVars>>

\* The source raises inside run(): the handler of start().  The line that
\* cancels the health loop task is skipped.
RunError ==
    /\ col_pc = "running"
    /\ collector.is_running
    /\ collector' = handle_error(collector)
    /\ col_pc' = "backoff"
    /\ col_wake' = col_now + collector.current_reconnect_delay
    /\ colErr' = PendingError(col_now, collector.current_reconnect_delay, TRUE)
    /\ colLast' = ColEvent("error", "raised", col_now, colErr,
                           collector.current_reconnect_delay)
    /\ UNCHANGED <<col_breaker, col_now, col_attempts, health_tasks>>
    /\ UNCHANGED <<cbVars, barVars, apiVars, pipeVars, dqVars, polyVars, extVars>>

\* reconnect() after its sleep: the delay is multiplied, then
\* connect_with_circuit_breaker() is tried; a failure is only logged, an
\* open breaker sleeps retry_after; reconnect() returns to the top of the
\* loop of start().
Reconnect(outcome) ==
    /\ col_pc = "backoff"
    /\ col_now >= col_wake
    /\ col_attempts < MaxAttempts
    /\ LET col1 == [collector EXCEPT !.current_reconnect_delay = next_delay(collector)]
           r == connect_with_circuit_breaker(col1, col_breaker, col_now, outcome)
       IN  /\ col_breaker' = r.breaker
           /\ collector' = r.col
           /\ col_attempts' = IF r.result = "open" THEN col_attempts
                              ELSE col_attempts + 1
           /\ CASE r.result = "connected" ->
                     /\ col_pc' = "top"
                     /\ col_wake' = col_now
                     /\ colErr' = NoPendingError
                [] r.result = "open" ->
                     /\ col_pc' = "breaker_sleep"
                     /\ col_wake' = col_now + r.retry_after
                     /\ colErr' = colErr
                [] r.result = "failed" ->
                     /\ col_pc' = "top"
                     /\ col_wake' = col_now
                     /\ colErr' = PendingError(col_now,
                                               r.col.current_reconnect_delay, FALSE)
           /\ colLast' = ColEvent(IF r.result = "open" THEN "rejected" ELSE "connect",
                                  r.result, col_now, colErr,
                                  r.col.current_reconnect_delay)
    /\ UNCHANGED <<col_now, health_tasks>>
    /\ UNCHANGED <<cbVars, barVars, apiVars, pipeVars, dqVars, polyVars, extVars>>

\* The sleep after CircuitBreakerOpenError is over: back to the top of the
\* loop.
BreakerSleepOver ==
    /\ col_pc = "breaker_sleep"
    /\ col_now >= col_wake
    /\ col_pc' = "top"
    /\ UNCHANGED <<collector, col_breaker, col_now, col_wake, col_attempts,
                   health_tasks, colErr, colLast>>
    /\ UNCHANGED <<cbVars, barVars, apiVars, pipeVars, dqVars, polyVars, extVars>>

\* stop(): is_running is cleared and disconnect() called.
Stop ==
    /\ col_pc # "stopped"
    /\ collector' = [collector EXCEPT !.is_running = FALSE,
                                      !.is_connected = FALSE]
    /\ col_pc' = "stopped"
    /\ colErr' = IF colErr.pending THEN [colErr EXCEPT !.disconnected = TRUE]
                 ELSE colErr
    /\ colLast' = ColEvent("stop", "disconnect", col_now, colErr,
                           collector.current_reconnect_delay)
    /\ UNCHANGED <<col_breaker, col_now, col_wake, col_attempts, health_tasks>>
    /\ UNCHANGED <<cbVars, barVars, apiVars, pipeVars, dqVars, polyVars, extVars>>

\* run() returns: start() cancels the health loop task it created in this
\* iteration and goes back to the top of its loop.
RunReturns ==
    /\ col_pc = "running"
    /\ collector.is_running
    /\ col_pc' = "top"
    /\ health_tasks' = health_tasks - 1
    /\ colLast' = ColEvent("run", "returned", col_now, colErr,
                           collector.current_reconnect_delay)
    /\ UNCHANGED <<collector, col_breaker, col_now, col_wake, col_attempts, colErr>>
    /\ UNCHANGED <<cbVars, barVars, apiVars, pipeVars, dqVars, polyVars, extVars>>

\* _health_update_loop: a loop task finds is_running cleared and ends.
HealthLoopExit ==
    /\ ~collector.is_running
    /\ health_tasks > 0
    /\ health_tasks' = health_tasks - 1
    /\ UNCHANGED <<collector, col_pc, col_breaker, col_now, col_wake,
                   col_attempts, colErr, colLast>>
    /\ UNCHANGED <<cbVars, barVars, apiVars, pipeVars, dqVars, polyVars, extVars>>

\* One second passes while the collector runs or sleeps.
ColAdvance ==
    /\ col_now < MaxColTime
    /\ \/ col_pc = "running"
       \/ col_pc \in {"backoff", "breaker_sleep"} /\ col_now < col_wake
    /\ col_now' = col_now + 1
    /\ UNCHANGED <<collector, col_pc, col_breaker, col_wake, col_attempts,
                   health_tasks, colErr, colLast>>
    /\ UNCHANGED <<cbVars, barVars, apiVars, pipeVars, dqVars, polyVars, extVars>>

(***************************************************************************)
(* PolygonCollector polling (collectors/polygon_collector.py).  Time is    *)
(* counted in units of 10 s: the 60 s window and polling interval are 6.   *)
(***************************************************************************)
requests_per_minute == 5
rate_window == 6
polling_interval == 6
initial_delay == 1
max_delay == 30
multiplier == 2
Statuses == {200, 429}

\* Bounds of the polling model: the symbols of one poll, the clock, the
\* requests.
NumPollSymbols == 6
MaxPolyTime == 8
MaxRequests == 7

PolygonCollectorInit ==
    [request_count |-> 0, request_window_start |-> 0,
     current_backoff_delay |-> initial_delay]

\* _check_rate_limit up to its sleep: the window is restarted when 60 s
\* have passed since its start; otherwise, with the count at the limit,
\* the collector waits for the rest of the window.
check_rate_limit(poly, t) ==
    LET elapsed == t - poly.request_window_start IN
    IF elapsed >= rate_window
    THEN [poly |-> [poly EXCEPT !.request_count = 0, !.request_window_start = t],
          wait |-> 0]
    ELSE IF poly.request_count >= requests_per_minute
    THEN [poly |-> poly, wait |-> rate_window - elapsed]
    ELSE [poly |-> poly, wait |-> 0]

\* _poll_data, one symbol: _check_rate_limit, and when it returns without
\* sleeping the request is issued.
PollCheck ==
    /\ poly_pc.stage = "check"
    /\ Len(poly_log) < MaxRequests
    /\ LET r == check_rate_limit(polygon, poly_now) IN
       /\ polygon' = r.poly
       /\ IF r.wait > 0
          THEN /\ poly_pc' = [poly_pc EXCEPT !.stage = "limit_sleep",
                                             !.wake = poly_now + r.wait]
               /\ UNCHANGED poly_log
          ELSE /\ poly_pc' = [poly_pc EXCEPT !.stage = "response"]
               /\ poly_log' = Append(poly_log, poly_now)
    /\ UNCHANGED poly_now
    /\ UNCHANGED <<cbVars, barVars, apiVars, pipeVars, dqVars, colVars, extVars>>

\* _check_rate_limit after its sleep: a new window starts now, and the
\* request is issued.
LimitSleepOver ==
    /\ poly_pc.stage = "limit_sleep"
    /\ poly_now >= poly_pc.wake
    /\ Len(poly_log) < MaxRequests
    /\ polygon' = [polygon EXCEPT !.request_count = 0,
                                  !.request_window_start = poly_now]
    /\ poly_pc' = [poly_pc EXCEPT !.stage = "response"]
    /\ poly_log' = Append(poly_log, poly_now)
    /\ UNCHANGED poly_now
    /\ UNCHANGED <<cbVars, barVars, apiVars, pipeVars, dqVars, colVars, extVars>>

\* _poll_data, one symbol: the response arrives and the request is
\* counted.  On 200 the bar is published and the backoff reset; on 429
\* _handle_error sleeps the backoff delay, multiplies it, and the poll
\* stops.  After the last symbol, or the stop, run() sleeps
\* polling_interval.
PollResponse(status) ==
    /\ poly_pc.stage = "response"
    /\ IF status = 200
       THEN /\ polygon' = [polygon EXCEPT !.request_count = @ + 1,
                                          !.current_backoff_delay = initial_delay]
            /\ poly_pc' = IF poly_pc.symbol < NumPollSymbols
                          THEN [poly_pc EXCEPT !.stage = "check",
                                               !.symbol = @ + 1]
                          ELSE [stage |-> "poll_sleep", symbol |-> 1,
                                wake |-> poly_now + polling_interval]
       ELSE /\ polygon' = [polygon EXCEPT
                             !.request_count = @ + 1,
                             !.current_backoff_delay =
                                 Min(@ * multiplier, max_delay)]
            /\ poly_pc' = [stage |-> "poll_sleep", symbol |-> 1,
                           wake |-> poly_now + polygon.current_backoff_delay
                                             + polling_interval]
    /\ UNCHANGED <<poly_now, poly_log>>
    /\ UNCHANGED <<cbVars, barVars, apiVars, pipeVars, dqVars, colVars, extVars>>

\* run(): the sleep between two polls is over, the next poll starts.
PollSleepOver ==
    /\ poly_pc.stage = "poll_sleep"
    /\ poly_now >= poly_pc.wake
    /\ poly_pc' = [poly_pc EXCEPT !.stage = "check"]
    /\ UNCHANGED <<polygon, poly_now, poly_log>>
    /\ UNCHANGED <<cbVars, barVars, apiVars, pipeVars, dqVars, colVars, extVars>>

\* 10 s pass: during a sleep, while a response is awaited, or between
\* the symbols of a poll.
PolyAdvance ==
    /\ poly_now < MaxPolyTime
    /\ poly_pc.stage \in {"limit_sleep", "poll_sleep"} => poly_now < poly_pc.wake
    /\ poly_now' = poly_now + 1
    /\ UNCHANGED <<polygon, poly_pc, poly_log>>
    /\ UNCHANGED <<cbVars, barVars, apiVars, pipeVars, dqVars, colVars, extVars>>

(***************************************************************************)
(* AlertManager.check_alerts step by step (api/alert_manager.py), as the   *)
(* indicator engine calls it from the processor's loop.  A step runs from  *)
(* one await to the next.  Alert objects are shared by reference: a list   *)
(* loaded from the store lives in ev_heap, and the cache and the running   *)
(* evaluations name it by its index.  Time is counted in units of 10 s.    *)
(***************************************************************************)
\* Alert.metadata of a rule that has stored nothing yet.
NoMetadata == [prev_macd |-> None, prev_signal |-> None]

\* The rules of this model: a bullish MACD_CROSSOVER rule with a cooldown
\* of 10 s and a PRICE_ABOVE 100 rule with a cooldown of 20 s, both on BTC,
\* created in this order.
EvalRules ==
    [id \in {"a1", "a2"} |->
        IF id = "a1"
        THEN Alert("a1", "BTC", "macd_crossover", 1, 1, FALSE)
                @@ [metadata |-> NoMetadata]
        ELSE Alert("a2", "BTC", "price_above", 100, 2, FALSE)
                @@ [metadata |-> NoMetadata]]

\* The (symbol, price, indicators) updates handed to check_alerts.
Indicators(macd, macd_signal) ==
    [rsi |-> None, macd |-> macd, macd_signal |-> macd_signal]

EvalInputs ==
    { [symbol |-> "BTC", price |-> 99, indicators |-> Indicators(1, 2)],
      [symbol |-> "BTC", price |-> 101, indicators |-> Indicators(1, 2)],
      [symbol |-> "BTC", price |-> 99, indicators |-> Indicators(3, 2)],
      [symbol |-> "BTC", price |-> 99, indicators |-> Indicators(None, None)],
      [symbol |-> "ETH", price |-> 99, indicators |-> Indicators(1, 2)] }

\* Bounds of the evaluation model.
MaxEvals == 3
MaxEvalTime == 2
\* The long step of the clock (150 s) and the clock's bound in the
\* specification of the cache.
CacheSkip == cache_ttl \div 2
MaxCacheTime == 45

\* _should_trigger, the early returns: inactive, in cooldown, one-time rule
\* that has fired.
gate(alert, utcnow) ==
    /\ alert.is_active
    /\ ~(/\ alert.last_triggered_at # None
         /\ utcnow < alert.last_triggered_at + alert.cooldown_seconds)
    /\ ~(alert.one_time /\ alert.trigger_count > 0)

\* _should_trigger, the MACD_CROSSOVER branch: with macd and macd_signal
\* present the previous values kept in alert.metadata decide, and the
\* current values are written to alert.metadata.
macd_crossover(alert, indicators) ==
    LET macd == indicators.macd
        macd_signal == indicators.macd_signal
    IN  IF macd # None /\ macd_signal # None
        THEN LET prev_macd == alert.metadata.prev_macd
                 prev_signal == alert.metadata.prev_signal
             IN  [met |-> IF prev_macd # None /\ prev_signal # None
                          THEN IF alert.threshold > 0
                               THEN prev_macd <= prev_signal /\ macd > macd_signal
                               ELSE prev_macd >= prev_signal /\ macd < macd_signal
                          ELSE FALSE,
                  stored |-> TRUE,
                  alert |-> [alert EXCEPT !.metadata =
                                [prev_macd |-> macd, prev_signal |-> macd_signal]]]
        ELSE [met |-> FALSE, stored |-> FALSE, alert |-> alert]

\* _should_trigger on an alert object: the decision, the object after it,
\* and whether the MACD branch stored the current values.
should_trigger_object(alert, price, indicators, utcnow) ==
    IF ~gate(alert, utcnow)
    THEN [fire |-> FALSE, stored |-> FALSE, alert |-> alert]
    ELSE IF alert.condition = "macd_crossover"
    THEN LET r == macd_crossover(alert, indicators) IN
         [fire |-> r.met, stored |-> r.stored, alert |-> r.alert]
    ELSE [fire |-> condition_met(alert, price, indicators), stored |-> FALSE,
          alert |-> alert]

\* A list returned by db.get_active_alerts: its objects, and (observation)
\* when it was loaded and how many mutations of the symbol's rules had
\* completed by then.
AlertList(symbol, alerts, utcnow, mutations) ==
    [symbol |-> symbol, alerts |-> alerts, loaded_at |-> utcnow,
     mutations |-> mutations]

\* _get_active_alerts, the cache check: the index of the cached list while
\* the cache is younger than the time to live, else 0.
cached_list(cache, refreshed, symbol, utcnow) ==
    IF cache[symbol] # 0 /\ utcnow - refreshed < cache_ttl
    THEN cache[symbol] ELSE 0

\* The evaluation after the rule at position i: the next rule, or the end.
next_rule(task, alerts) ==
    IF task.i < Len(alerts)
    THEN <<[task EXCEPT !.i = @ + 1, !.stage = "rule"]>>
    ELSE <<>>

ReplaceAt(seq, i, sub) == SubSeq(seq, 1, i - 1) \o sub \o SubSeq(seq, i + 1, Len(seq))

\* Observations: the last step; per rule the time of its last fire and
\* whether it has fired inside its cooldown; for the MACD rule the values
\* its last evaluation stored, the ones it compared against, and the ones
\* the evaluation before had stored.
EvEvent(op, symbol, age, stale) ==
    [op |-> op, symbol |-> symbol, age |-> age, stale |-> stale]

EvFiresInit == [last |-> None, count |-> 0, early |-> FALSE]

EvMacdInit ==
    [stored |-> NoMetadata, compared |-> NoMetadata, expected |-> NoMetadata,
     evaluations |-> 0]

\* AlertManager.create_alert: the rule is inserted and the cache of its
\* symbol dropped.
EvCreate(id) ==
    /\ ev_db[id] = NoRow
    /\ ev_db' = [ev_db EXCEPT ![id] = EvalRules[id]]
    /\ ev_cache' = [ev_cache EXCEPT ![EvalRules[id].symbol] = 0]
    /\ ev_mutations' = [ev_mutations EXCEPT ![EvalRules[id].symbol] = @ + 1]
    /\ evLast' = EvEvent("create_alert", EvalRules[id].symbol, 0, FALSE)
    /\ UNCHANGED <<ev_refreshed, ev_heap, ev_inbox, ev_tasks, ev_now, ev_count,
                   evFires, evMacd>>
    /\ UNCHANGED <<cbVars, barVars, apiVars, backVars, bcVars>>

\* A completed bar's indicators reach the processor.
EvArrive(input) ==
    /\ ev_count < MaxEvals
    /\ ev_count' = ev_count + 1
    /\ ev_inbox' = Append(ev_inbox, input)
    /\ UNCHANGED <<ev_db, ev_cache, ev_refreshed, ev_heap, ev_tasks, ev_now,
                   ev_mutations, evFires, evMacd, evLast>>
    /\ UNCHANGED <<cbVars, barVars, apiVars, backVars, bcVars>>

\* The processor's loop takes the next update; check_alerts runs up to
\* its first await: a cached list is used as it is, else the store is
\* asked.
EvStart ==
    /\ ev_inbox # <<>>
    /\ loop_ready(ev_tasks)
    /\ LET input == Head(ev_inbox)
           list == cached_list(ev_cache, ev_refreshed, input.symbol, ev_now)
           task == [symbol |-> input.symbol, price |-> input.price,
                    indicators |-> input.indicators, list |-> list, i |-> 0,
                    stage |-> "load"]
       IN  IF list # 0
           THEN /\ ev_tasks' = ev_tasks \o next_rule(task, ev_heap[list].alerts)
                /\ evLast' = EvEvent("cached", input.symbol,
                                     ev_now - ev_heap[list].loaded_at,
                                     ev_heap[list].mutations
                                        # ev_mutations[input.symbol])
           ELSE /\ ev_tasks' = Append(ev_tasks, task)
                /\ evLast' = EvEvent("miss", input.symbol, 0, FALSE)
    /\ ev_inbox' = Tail(ev_inbox)
    /\ UNCHANGED <<ev_db, ev_cache, ev_refreshed, ev_heap, ev_now, ev_count,
                   ev_mutations, evFires, evMacd>>
    /\ UNCHANGED <<cbVars, barVars, apiVars, backVars, bcVars>>

\* _get_active_alerts after `await self.db.get_active_alerts(symbol)`:
\* the list is cached and the refresh time set.
EvLoad(k) ==
    /\ k \in DOMAIN ev_tasks
    /\ ev_tasks[k].stage = "load"
    /\ LET task == ev_tasks[k]
           alerts == db_get_active_alerts(ev_db, task.symbol)
           list == Len(ev_heap) + 1
       IN  /\ ev_heap' = Append(ev_heap,
                                AlertList(task.symbol, alerts, ev_now,
                                          ev_mutations[task.symbol]))
           /\ ev_cache' = [ev_cache EXCEPT ![task.symbol] = list]
           /\ ev_refreshed' = ev_now
           /\ ev_tasks' = ReplaceAt(ev_tasks, k,
                                    next_rule([task EXCEPT !.list = list], alerts))
           /\ evLast' = EvEvent("loaded", task.symbol, 0, FALSE)
    /\ UNCHANGED <<ev_db, ev_inbox, ev_now, ev_count, ev_mutations, evFires,
                   evMacd>>
    /\ UNCHANGED <<cbVars, barVars, apiVars, backVars, bcVars>>

\* The loop of check_alerts at one rule: _should_trigger; a rule that
\* fires goes on to its notifications.
EvRule(k) ==
    /\ k \in DOMAIN ev_tasks
    /\ ev_tasks[k].stage = "rule"
    /\ LET task == ev_tasks[k]
           alerts == ev_heap[task.list].alerts
           alert == alerts[task.i]
           r == should_trigger_object(alert, task.price, task.indicators, ev_now)
           id == alert.alert_id
       IN  /\ ev_heap' = [ev_heap EXCEPT ![task.list].alerts[task.i] = r.alert]
           /\ ev_tasks' = ReplaceAt(ev_tasks, k,
                             IF r.fire THEN <<[task EXCEPT !.stage = "notify"]>>
                             ELSE next_rule(task, alerts))
           /\ evFires' =
                 IF r.fire
                 THEN [evFires EXCEPT ![id] =
                         [last |-> ev_now, count |-> @.count + 1,
                          early |-> \/ @.early
                                    \/ /\ @.last # None
                                       /\ ev_now < @.last + alert.cooldown_seconds]]
                 ELSE evFires
           /\ evMacd' =
                 IF r.stored
                 THEN [stored |-> r.alert.metadata, compared |-> alert.metadata,
                       expected |-> evMacd.stored,
                       evaluations |-> Min(evMacd.evaluations + 1, 2)]
                 ELSE evMacd
           /\ evLast' = EvEvent(IF r.fire THEN "fire" ELSE "pass", task.symbol,
                                0, FALSE)
    /\ UNCHANGED <<ev_db, ev_cache, ev_refreshed, ev_inbox, ev_now, ev_count,
                   ev_mutations>>
    /\ UNCHANGED <<cbVars, barVars, apiVars, backVars, bcVars>>

\* After `await self._send_notifications(...)`: _update_alert_state sets
\* the fields of the alert object and asks the store to write it.
EvNotified(k) ==
    /\ k \in DOMAIN ev_tasks
    /\ ev_tasks[k].stage = "notify"
    /\ LET task == ev_tasks[k] IN
       /\ ev_heap' = [ev_heap EXCEPT ![task.list].alerts[task.i] =
                         update_alert_state(@, ev_now)]
       /\ ev_tasks' = [ev_tasks EXCEPT ![k].stage = "db_update"]
       /\ evLast' = EvEvent("notified", task.symbol, 0, FALSE)
    /\ UNCHANGED <<ev_db, ev_cache, ev_refreshed, ev_inbox, ev_now, ev_count,
                   ev_mutations, evFires, evMacd>>
    /\ UNCHANGED <<cbVars, barVars, apiVars, backVars, bcVars>>

\* After `await self.db.update_alert(alert)`: the row is written, the
\* cache of the symbol dropped, and the loop goes on.
EvUpdated(k) ==
    /\ k \in DOMAIN ev_tasks
    /\ ev_tasks[k].stage = "db_update"
    /\ LET task == ev_tasks[k]
           alerts == ev_heap[task.list].alerts
       IN  /\ ev_db' = db_update_alert(ev_db, alerts[task.i])
           /\ ev_cache' = [ev_cache EXCEPT ![task.symbol] = 0]
           /\ ev_mutations' = [ev_mutations EXCEPT ![task.symbol] = @ + 1]
           /\ ev_tasks' = ReplaceAt(ev_tasks, k, next_rule(task, alerts))
           /\ evLast' = EvEvent("updated", task.symbol, 0, FALSE)
    /\ UNCHANGED <<ev_refreshed, ev_heap, ev_inbox, ev_now, ev_count, evFires,
                   evMacd>>
    /\ UNCHANGED <<cbVars, barVars, apiVars, backVars, bcVars>>

\* datetime.utcnow() moves on by 10 s.
EvAdvance ==
    /\ ev_now < MaxEvalTime
    /\ ev_now' = ev_now + 1
    /\ UNCHANGED <<ev_db, ev_cache, ev_refreshed, ev_heap, ev_inbox, ev_tasks,
                   ev_count, ev_mutations, evFires, evMacd, evLast>>
    /\ UNCHANGED <<cbVars, barVars, apiVars, backVars, bcVars>>

\* datetime.utcnow() moves on by 150 s.
EvSkip ==
    /\ ev_now + CacheSkip <= MaxCacheTime
    /\ ev_now' = ev_now + CacheSkip
    /\ UNCHANGED <<ev_db, ev_cache, ev_refreshed, ev_heap, ev_inbox, ev_tasks,
                   ev_count, ev_mutations, evFires, evMacd, evLast>>
    /\ UNCHANGED <<cbVars, barVars, apiVars, backVars, bcVars>>

(***************************************************************************)
(* ConnectionManager.broadcast step by step (api/websocket.py), for one    *)
(* symbol.  active_connections[symbol] is a dict: its slots in insertion   *)
(* order, a popped key leaving a hole.  A coroutine runs without            *)
(* interruption from one await to the next: connect() after accept(),      *)
(* disconnect() as a whole, broadcast() from one send_text to the next.    *)
(***************************************************************************)
BcClients == WsClients \cup {"ws3"}
Deleted == "deleted"

\* Bounds of the step-by-step broadcast model.
MaxBcBroadcasts == 2
MaxBcJumps == 1

\* The dict of the symbol is absent (defaultdict: created on first use).
BcManagerInit ==
    [active_connections |-> <<>>,
     message_queues |-> [c \in BcClients |-> NoQueue],
     last_send_time |-> [c \in BcClients |-> None]]

\* The keys of the dict.
Keys(slots) == {slots[i] : i \in DOMAIN slots} \ {Deleted}

\* ConnectionManager.connect after websocket.accept().
connect_dict(cm, websocket) ==
    [cm EXCEPT !.active_connections = Append(@, websocket),
               !.last_send_time[websocket] = 0]

\* ConnectionManager.disconnect: the key is popped, the dict of the symbol
\* deleted when it is empty, the throttling data popped.
disconnect_dict(cm, websocket) ==
    LET popped == [i \in DOMAIN cm.active_connections |->
                      IF cm.active_connections[i] = websocket THEN Deleted
                      ELSE cm.active_connections[i]]
    IN  [cm EXCEPT !.active_connections = IF Keys(popped) = {} THEN <<>>
                                          ELSE popped,
                   !.last_send_time[websocket] = None,
                   !.message_queues[websocket] = NoQueue]

RECURSIVE disconnect_each(_, _)
disconnect_each(cm, websockets) ==
    IF websockets = <<>> THEN cm
    ELSE disconnect_each(disconnect_dict(cm, Head(websockets)), Tail(websockets))

\* No broadcast is in progress.
NoTask ==
    [stage |-> "idle", message |-> 0, current_time |-> 0, used |-> 0,
     pos |-> 0, websocket |-> "none", disconnected |-> <<>>, stale |-> FALSE]

BcEvent(op, message, stayed, got) ==
    [op |-> op, message |-> message, stayed |-> stayed, got |-> got]

\* The index of the next key of the dict after slot pos, 0 at the end.
next_slot(slots, pos) ==
    LET rest == {i \in DOMAIN slots : i > pos /\ slots[i] # Deleted} IN
    IF rest = {} THEN 0
    ELSE CHOOSE i \in rest : \A j \in rest : i <= j

\* The loop of broadcast() from a call of next() on the dict's iterator up
\* to the next await: RuntimeError when the dict changed size since the
\* iterator was made; at the end the clients whose send raised are
\* disconnected; a throttled client has the message appended to its ring;
\* for any other client send_text is awaited.
RECURSIVE broadcast_loop(_, _, _)
broadcast_loop(cm, task, got) ==
    IF task.stale \/ Cardinality(Keys(cm.active_connections)) # task.used
    THEN [cm |-> cm, task |-> NoTask, got |-> got, op |-> "raised"]
    ELSE LET i == next_slot(cm.active_connections, task.pos) IN
         IF i = 0
         THEN [cm |-> disconnect_each(cm, task.disconnected), task |-> NoTask,
               got |-> got, op |-> "done"]
         ELSE LET websocket == cm.active_connections[i] IN
              IF task.current_time - last_send(cm, websocket) < throttle_interval
              THEN broadcast_loop(
                      [cm EXCEPT !.message_queues[websocket] =
                                     ring_append(@, task.message)],
                      [task EXCEPT !.pos = i], got \cup {websocket})
              ELSE [cm |-> cm,
                    task |-> [task EXCEPT !.pos = i, !.stage = "send",
                                          !.websocket = websocket],
                    got |-> got, op |-> "await"]

\* websocket_endpoint: accept() returns and connect() registers the client.
BcConnect(websocket) ==
    /\ bc_sock[websocket] = "new"
    /\ bc_sock' = [bc_sock EXCEPT ![websocket] = "open"]
    /\ bc_manager' = connect_dict(bc_manager, websocket)
    /\ UNCHANGED <<bc_task, bc_now, bc_seq, bc_stayed, bc_got, bcLast>>
    /\ UNCHANGED <<cbVars, barVars, apiVars, backVars, evVars>>

\* The peer goes away: from now on every send to the client raises.
BcPeerGone(websocket) ==
    /\ bc_sock[websocket] = "open"
    /\ bc_sock' = [bc_sock EXCEPT ![websocket] = "broken"]
    /\ bc_stayed' = bc_stayed \ {websocket}
    /\ UNCHANGED <<bc_manager, bc_task, bc_now, bc_seq, bc_got, bcLast>>
    /\ UNCHANGED <<cbVars, barVars, apiVars, backVars, evVars>>

\* websocket_endpoint: receive_text raises and the finally block calls
\* disconnect().  A broadcast that is iterating over the dict of the symbol
\* keeps the old dict when the symbol's entry is deleted.
BcEndpointExit(websocket) ==
    /\ bc_sock[websocket] = "broken"
    /\ bc_sock' = [bc_sock EXCEPT ![websocket] = "closed"]
    /\ bc_manager' = disconnect_dict(bc_manager, websocket)
    /\ bc_task' = IF bc_task.stage # "idle"
                     /\ bc_manager'.active_connections = <<>>
                  THEN [bc_task EXCEPT !.stale = TRUE]
                  ELSE bc_task
    /\ bc_stayed' = bc_stayed \ {websocket}
    /\ UNCHANGED <<bc_now, bc_seq, bc_got, bcLast>>
    /\ UNCHANGED <<cbVars, barVars, apiVars, backVars, evVars>>

\* message_handler: broadcast() is called with the next chart update and
\* runs up to its first await.
BcStart ==
    /\ bc_task.stage = "idle"
    /\ bc_seq < MaxBcBroadcasts
    /\ bc_seq' = bc_seq + 1
    /\ IF bc_manager.active_connections = <<>>
       THEN /\ bcLast' = BcEvent("empty", bc_seq + 1, {}, {})
            /\ UNCHANGED <<bc_manager, bc_task, bc_stayed, bc_got>>
       ELSE LET stayed == {w \in Keys(bc_manager.active_connections) :
                              bc_sock[w] = "open"}
                task == [NoTask EXCEPT
                           !.stage = "next", !.message = bc_seq + 1,
                           !.current_time = bc_now,
                           !.used = Cardinality(Keys(bc_manager.active_connections))]
                r == broadcast_loop(bc_manager, task, {})
            IN  /\ bc_manager' = r.cm
                /\ bc_task' = r.task
                /\ bc_stayed' = stayed
                /\ bc_got' = r.got
                /\ bcLast' = IF r.op = "await" THEN bcLast
                             ELSE BcEvent(r.op, bc_seq + 1, stayed, r.got)
    /\ UNCHANGED <<bc_sock, bc_now>>
    /\ UNCHANGED <<cbVars, barVars, apiVars, backVars, evVars>>

\* send_text returns or raises; broadcast() goes on up to its next await.
BcSent ==
    /\ bc_task.stage = "send"
    /\ LET websocket == bc_task.websocket
           ok == bc_sock[websocket] = "open"
           cm1 == IF ok
                  THEN [bc_manager EXCEPT
                          !.last_send_time[websocket] = bc_task.current_time]
                  ELSE bc_manager
           task1 == IF ok THEN [bc_task EXCEPT !.stage = "next"]
                    ELSE [bc_task EXCEPT
                            !.stage = "next",
                            !.disconnected = Append(@, websocket)]
           got1 == IF ok THEN bc_got \cup {websocket} ELSE bc_got
           r == broadcast_loop(cm1, task1, got1)
       IN  /\ bc_manager' = r.cm
           /\ bc_task' = r.task
           /\ bc_got' = r.got
           /\ bcLast' = IF r.op = "await" THEN bcLast
                        ELSE BcEvent(r.op, bc_task.message, bc_stayed, r.got)
    /\ UNCHANGED <<bc_sock, bc_now, bc_seq, bc_stayed>>
    /\ UNCHANGED <<cbVars, barVars, apiVars, backVars, evVars>>

\* throttle_interval passes between two broadcasts.
BcAdvance ==
    /\ bc_task.stage = "idle"
    /\ bc_now < WsEpoch + MaxBcJumps * throttle_interval
    /\ bc_now' = bc_now + throttle_interval
    /\ UNCHANGED <<bc_manager, bc_sock, bc_task, bc_seq, bc_stayed, bc_got, bcLast>>
    /\ UNCHANGED <<cbVars, barVars, apiVars, backVars, evVars>>

(***************************************************************************)
(* Specifications                                                          *)
(***************************************************************************)
Init ==
    /\ breaker = BreakerInit
    /\ now = 0
    /\ pc = [c \in Callers |-> "idle"]
    /\ cbHist = HistInit
    /\ admitted_in = [c \in Callers |-> "none"]
    /\ cbLast = Event("init", 0, BreakerInit, 0, NoError, HistInit)
    /\ builder = BuilderInit
    /\ tickLog = [s \in Symbols |-> <<>>]
    /\ openTicks = [s \in Symbols |-> <<>>]
    /\ doneTicks = [s \in Symbols |-> <<>>]
    /\ openBases = [s \in Symbols |-> [tf \in Timeframes |-> <<>>]]
    /\ doneBases = [s \in Symbols |-> [tf \in Timeframes |-> <<>>]]
    /\ fed = 0
    /\ limiter = NoLimiter
    /\ redis = [c \in Clients |-> NoKey]
    /\ rl_now = 0
    /\ rl_pc = [r \in Requests |-> Idle]
    /\ rl_calls = 0
    /\ rlBurst = [c \in Clients |-> BurstInit]
    /\ rlLast = [op |-> "init", client_id |-> "none", cost |-> 0,
                 allowed |-> TRUE, retry_after |-> None, tokens |-> 0, t |-> 0]
    /\ db_alerts = [id \in DOMAIN Rules |-> NoRow]
    /\ alerts_cache = [s \in Symbols |-> NoCache]
    /\ last_cache_refresh = 0
    /\ al_now = 0
    /\ al_checks = 0
    /\ alFires = [id \in DOMAIN Rules |-> FiresInit]
    /\ alLast = [op |-> "init", symbol |-> "none",
                 triggered |-> {}, loaded |-> FALSE]
    /\ manager = ConnectionManagerInit
    /\ sock = [c \in WsClients |-> "new"]
    /\ ws_now = WsEpoch
    /\ next_flush = WsEpoch + batch_window
    /\ ws_seq = 0
    /\ wsLast = WsEvent("init", "none", {}, {}, {}, {})
    /\ initial_sent = {}
    /\ proc_inbox = <<>>
    /\ tasks = <<>>
    /\ effects = <<>>
    /\ pub_count = 0
    /\ pubLast = {}
    /\ checker = DataQualityCheckerInit
    /\ dq_count = 0
    /\ dqStream = [s \in Symbols |-> <<>>]
    /\ dqLast = [trade |-> Trade("none", 0, 0, 0), valid |-> TRUE, reason |-> NoReason]
    /\ collector = BaseCollectorInit
    /\ col_pc = "top"
    /\ col_wake = 0
    /\ col_breaker = BreakerInit
    /\ col_now = 0
    /\ col_attempts = 0
    /\ health_tasks = 0
    /\ colErr = NoPendingError
    /\ colLast = ColEvent("init", "none", 0, NoPendingError, reconnect_delay)
    /\ polygon = PolygonCollectorInit
    /\ poly_pc = [stage |-> "check", symbol |-> 1, wake |-> 0]
    /\ poly_now = 0
    /\ poly_log = <<>>
    /\ ev_db = [id \in DOMAIN Rules |-> NoRow]
    /\ ev_cache = [s \in Symbols |-> 0]
    /\ ev_refreshed = 0
    /\ ev_heap = <<>>
    /\ ev_inbox = <<>>
    /\ ev_tasks = <<>>
    /\ ev_now = 0
    /\ ev_count = 0
    /\ ev_mutations = [s \in Symbols |-> 0]
    /\ evFires = [id \in DOMAIN EvalRules |-> EvFiresInit]
    /\ evMacd = EvMacdInit
    /\ evLast = EvEvent("init", "none", 0, FALSE)
    /\ bc_manager = BcManagerInit
    /\ bc_sock = [c \in BcClients |-> "new"]
    /\ bc_task = NoTask
    /\ bc_now = WsEpoch
    /\ bc_seq = 0
    /\ bc_stayed = {}
    /\ bc_got = {}
    /\ bcLast = BcEvent("init", 0, {}, {})

\* The circuit breaker under concurrent callers, manual resets and time.
Next ==
    \/ \E c \in Callers : Call(c)
    \/ \E c \in Callers : Success(c)
    \/ \E c \in Callers : Failure(c)
    \/ Reset
    \/ Advance

Spec == Init /\ [][Next]_vars

\* The bar builder fed with accepted ticks.
NextBars == \E trade_data \in Feed : ProcessTrade(trade_data)

SpecBars == Init /\ [][NextBars]_vars

\* The roll-up fed with completed base candles.
NextRollup == \E bar \in CandleFeed : CompleteBaseBar(bar)

SpecRollup == Init /\ [][NextRollup]_vars

\* The rate limiter called by one request at a time.
NextLimiter ==
    \/ \E rate \in Rates : NewLimiter(rate)
    \/ \E client_id \in Clients, cost \in Costs : IsAllowed(client_id, cost)
    \/ \E client_id \in Clients : ResetLimit(client_id)
    \/ RLAdvance

SpecLimiter == Init /\ [][NextLimiter]_vars

\* The rate limiter called by concurrent requests (asyncio.gather): the
\* calls interleave at the await of hgetall.
NextLimiterConc ==
    \/ \E rate \in Rates : NewLimiter(rate)
    \/ \E r \in Requests, client_id \in Clients : HGetAll(r, client_id, 1)
    \/ \E r \in Requests : Decide(r)
    \/ RLAdvance

SpecLimiterConc == Init /\ [][NextLimiterConc]_vars

\* The alert engine: rules are created and the indicator engine hands it
\* one (price, indicators) update at a time.
NextAlerts ==
    \/ \E id \in DOMAIN Rules : CreateAlert(id)
    \/ \E symbol \in Symbols, u \in Updates :
          CheckAlerts(symbol, u.price, u.indicators)
    \/ AlertAdvance

SpecAlerts == Init /\ [][NextAlerts]_vars

\* The fan-out: clients connect and go away, chart updates are broadcast
\* one at a time, the batch flusher runs every batch_window.
NextFanOut ==
    \/ \E websocket \in WsClients, symbol \in Symbols : WsConnect(websocket, symbol)
    \/ \E websocket \in WsClients : PeerGone(websocket)
    \/ \E websocket \in WsClients : EndpointExit(websocket)
    \/ \E symbol \in Symbols : Broadcast(symbol)
    \/ Flush
    \/ WsAdvance

SpecFanOut == Init /\ [][NextFanOut]_vars

\* The fan-out together with the endpoint's snapshot step.
NextEndpoint ==
    \/ \E websocket \in WsClients, symbol \in Symbols : WsConnect(websocket, symbol)
    \/ \E websocket \in WsClients : SendInitial(websocket)
    \/ \E websocket \in WsClients : PeerGone(websocket)
    \/ \E websocket \in WsClients : EndpointExit(websocket)
    \/ \E symbol \in Symbols : Broadcast(symbol)
    \/ Flush
    \/ WsAdvance

SpecEndpoint == Init /\ [][NextEndpoint]_vars

NextPipeline ==
    \/ \E exchange \in StreamExchanges, symbol \in Symbols : StreamTrade(exchange, symbol)
    \/ \E exchange \in StreamExchanges, symbol \in Symbols : StreamBar(exchange, symbol)
    \/ \E exchange \in PollExchanges, symbol \in Symbols : PollSymbol(exchange, symbol)
    \/ \E symbol \in Symbols, timeframe \in Timeframes : BuilderBar(symbol, timeframe)
    \/ ProcReceive
    \/ \E i \in 1..MaxPublished : ProcStep(i)
    \/ \E i \in 1..MaxPublished : ProcFail(i)

SpecPipeline == Init /\ [][NextPipeline]_vars

NextQuality ==
    \E symbol \in Symbols, price \in Prices, quantity \in Quantities, age \in Ages :
        ValidateTrade(symbol, price, quantity, age)

SpecQuality == Init /\ [][NextQuality]_vars

\* One collector: start() with its connects, errors, backoff and stop.
NextCollector ==
    \/ \E outcome \in Outcomes : Connect(outcome)
    \/ RunError
    \/ \E outcome \in Outcomes : Reconnect(outcome)
    \/ BreakerSleepOver
    \/ RunReturns
    \/ HealthLoopExit
    \/ Stop
    \/ ColAdvance

SpecCollector == Init /\ [][NextCollector]_vars

\* The polling collector: polls of NumPollSymbols symbols, their waits.
NextPolygon ==
    \/ PollCheck
    \/ LimitSleepOver
    \/ \E status \in Statuses : PollResponse(status)
    \/ PollSleepOver
    \/ PolyAdvance

SpecPolygon == Init /\ [][NextPolygon]_vars

\* The alert engine step by step: rules are created, updates arrive and
\* the processor's loop hands them to check_alerts.
NextEval ==
    \/ \E id \in DOMAIN EvalRules : EvCreate(id)
    \/ \E input \in EvalInputs : EvArrive(input)
    \/ EvStart
    \/ \E k \in 1..MaxEvals : EvLoad(k)
    \/ \E k \in 1..MaxEvals : EvRule(k)
    \/ \E k \in 1..MaxEvals : EvNotified(k)
    \/ \E k \in 1..MaxEvals : EvUpdated(k)
    \/ EvAdvance

SpecEval == Init /\ [][NextEval]_vars

\* The same over a longer time, for the time to live of the cache.
NextEvalCache ==
    \/ \E id \in DOMAIN EvalRules : EvCreate(id)
    \/ \E input \in EvalInputs : EvArrive(input)
    \/ EvStart
    \/ \E k \in 1..MaxEvals : EvLoad(k)
    \/ \E k \in 1..MaxEvals : EvRule(k)
    \/ \E k \in 1..MaxEvals : EvNotified(k)
    \/ \E k \in 1..MaxEvals : EvUpdated(k)
    \/ EvSkip

SpecEvalCache == Init /\ [][NextEvalCache]_vars

\* One broadcast at a time, its sends interleaved with the endpoints of
\* three clients.
NextBroadcast ==
    \/ \E websocket \in BcClients : BcConnect(websocket)
    \/ \E websocket \in BcClients : BcPeerGone(websocket)
    \/ \E websocket \in BcClients : BcEndpointExit(websocket)
    \/ BcStart
    \/ BcSent
    \/ BcAdvance

SpecBroadcast == Init /\ [][NextBroadcast]_vars

(***************************************************************************)
(* Circuit breaker properties                                              *)
(***************************************************************************)

\* C1: when a guarded operation fails and it is at least the
\* failure_threshold-th failure in a row (no success, no reset in between),
\* the breaker is OPEN right after it and opened_at is recorded.
C1_OpensAfterThreshold ==
    (cbLast.op = "failure" /\ cbLast.consec >= FailureThreshold)
        => (breaker.state = "OPEN" /\ breaker.opened_at # None)

C1_Witness ==
    /\ cbLast.op = "failure"
    /\ cbLast.from = "CLOSED"
    /\ cbLast.consec = FailureThreshold
    /\ breaker.state = "OPEN"
    /\ breaker.opened_at = cbLast.at

\* C2: a guard call is rejected with CircuitBreakerOpenError(component,
\* retry_after), func not invoked, exactly when it meets the breaker OPEN
\* with now - opened_at < current_timeout; in every other case func runs.
C2_RejectsIffOpenAndNotElapsed ==
    cbLast.op \in {"admit", "reject"} =>
        /\ (cbLast.op = "reject") <=>
               (cbLast.from = "OPEN" /\ cbLast.at - cbLast.opened < cbLast.tmo)
        /\ cbLast.op = "reject" =>
               /\ cbLast.component = Component
               /\ cbLast.retry_after = cbLast.tmo - (cbLast.at - cbLast.opened)
               /\ pc[cbLast.caller] = "idle"
        /\ cbLast.op = "admit" => pc[cbLast.caller] = "running"

C2_Witness ==
    /\ cbLast.op = "reject"
    /\ cbLast.from = "OPEN"
    /\ cbLast.retry_after > 0
    /\ pc[cbLast.caller] = "idle"

\* C3: after three failures in a row have opened the breaker from CLOSED, a
\* guard call made once the configured timeout (0.5 s) has passed since it
\* opened, with nothing but time in between, is admitted and leaves the
\* breaker HALF_OPEN.
C3_HalfOpenAfterConfiguredTimeout ==
    ( /\ cbLast.op \in {"admit", "reject"}
      /\ cbLast.from = "OPEN"
      /\ cbLast.openedFrom = "CLOSED"
      /\ cbLast.consec = FailureThreshold
      /\ cbLast.quiet
      /\ cbLast.at - cbLast.opened >= Timeout )
        => (cbLast.op = "admit" /\ breaker.state = "HALF_OPEN")

\* C4: when a guarded operation succeeds on a HALF_OPEN breaker and it is
\* the success_threshold-th success in a row there, the breaker is CLOSED
\* with failure_count = 0 and current_timeout back at the configured
\* timeout; with fewer successes the breaker is still HALF_OPEN.
C4_ClosesAfterSuccesses ==
    (cbLast.op = "success" /\ cbLast.from = "HALF_OPEN") =>
        IF cbLast.hoSucc >= SuccessThreshold
        THEN /\ breaker.state = "CLOSED"
             /\ breaker.failure_count = 0
             /\ breaker.current_timeout = Timeout
        ELSE breaker.state = "HALF_OPEN"

C4_Witness ==
    /\ cbLast.op = "success"
    /\ cbLast.from = "HALF_OPEN"
    /\ cbLast.hoSucc = SuccessThreshold
    /\ cbLast.tmo > Timeout
    /\ breaker.state = "CLOSED"
    /\ breaker.current_timeout = Timeout

\* C5: when a guarded operation fails on a HALF_OPEN breaker the breaker is
\* OPEN, opened_at is the time of that failure, and current_timeout is
\* min(2 x the previous current_timeout, max_timeout).
C5_HalfOpenFailureReopens ==
    (cbLast.op = "failure" /\ cbLast.from = "HALF_OPEN") =>
        /\ breaker.state = "OPEN"
        /\ breaker.opened_at = cbLast.at
        /\ ExponentialBackoff =>
              breaker.current_timeout = Min(2 * cbLast.tmo, MaxTimeoutCfg)

C5_Witness ==
    /\ cbLast.op = "failure"
    /\ cbLast.from = "HALF_OPEN"
    /\ breaker.state = "OPEN"
    /\ breaker.opened_at = cbLast.at
    /\ breaker.current_timeout = 2 * cbLast.tmo

(***************************************************************************)
(* Bar builder properties                                                  *)
(***************************************************************************)
RECURSIVE SumOf(_, _)
SumOf(seq, field) ==
    IF seq = <<>> THEN 0 ELSE seq[1][field] + SumOf(Tail(seq), field)

MaxOf(seq, field) ==
    CHOOSE m \in {seq[i][field] : i \in 1..Len(seq)} :
        \A i \in 1..Len(seq) : seq[i][field] <= m

MinOf(seq, field) ==
    CHOOSE m \in {seq[i][field] : i \in 1..Len(seq)} :
        \A i \in 1..Len(seq) : m <= seq[i][field]

Completed(s, tf) == builder.completed_bars_cache[s][tf]

BaseBucket(tick) == get_bucket_time(tick.timestamp, base_timeframe)

\* The ticks of bucket b: those of the symbol's ticks that lie in b and
\* arrived before any tick of a later bucket.
TicksOfBucket(s, b) ==
    LET log == tickLog[s]
        later == {i \in 1..Len(log) : BaseBucket(log[i]) > b}
        upto == IF later = {} THEN Len(log)
                ELSE (CHOOSE i \in later : \A j \in later : i <= j) - 1
    IN  SelectSeq(SubSeq(log, 1, upto), LAMBDA t : BaseBucket(t) = b)

\* The candle that aggregates a non-empty sequence of ticks.
IsCandleOfTicks(bar, ticks) ==
    /\ ticks # <<>>
    /\ bar.open = ticks[1].price
    /\ bar.close = Last(ticks).price
    /\ bar.high = MaxOf(ticks, "price")
    /\ bar.low = MinOf(ticks, "price")
    /\ bar.volume = SumOf(ticks, "quantity")
    /\ bar.trade_count = Len(ticks)

\* The candle that rolls up a non-empty sequence of base candles.
IsCandleOfBases(bar, bases) ==
    /\ bases # <<>>
    /\ bar.open = bases[1].open
    /\ bar.close = Last(bases).close
    /\ bar.high = MaxOf(bases, "high")
    /\ bar.low = MinOf(bases, "low")
    /\ bar.volume = SumOf(bases, "volume")

\* C6: every completed candle, base or rolled up, has open, high, low,
\* close > 0, high >= max(open, close), low <= min(open, close),
\* volume >= 0 and a bucket that is a multiple of its timeframe's period
\* (so none is counted as invalid on completion).
C6_CompletedCandlesValid ==
    /\ \A s \in Symbols, tf \in Timeframes :
          \A i \in 1..Len(Completed(s, tf)) :
             LET bar == Completed(s, tf)[i] IN
             /\ bar.timeframe = tf
             /\ bar.open > 0 /\ bar.high > 0 /\ bar.low > 0 /\ bar.close > 0
             /\ bar.high >= Max(bar.open, bar.close)
             /\ bar.low <= Min(bar.open, bar.close)
             /\ bar.volume >= 0
             /\ bar.bucket_time % timeframe_seconds(tf) = 0
             /\ validate_ohlc(bar)
    /\ builder.invalid_bars_total = 0

C6_Witness ==
    /\ \E i \in 1..Len(Completed("BTC", "1m")) :
          LET bar == Completed("BTC", "1m")[i] IN
          bar.high > bar.open /\ bar.trade_count > 1
    /\ \E i \in 1..Len(Completed("BTC", "5m")) :
          LET bar == Completed("BTC", "5m")[i] IN
          bar.high > Max(bar.open, bar.close)

\* C7: the base candle completed for a bucket aggregates the ticks of that
\* bucket (open = first price, close = last price, high/low = max/min,
\* volume = sum of quantities, trade_count = number of ticks), and it is
\* completed by a tick of a later bucket.
C7_BaseCandleOfBucketTicks ==
    \A s \in Symbols :
       \A i \in 1..Len(Completed(s, base_timeframe)) :
          LET bar == Completed(s, base_timeframe)[i] IN
          /\ IsCandleOfTicks(bar, TicksOfBucket(s, bar.bucket_time))
          /\ \E k \in 1..Len(tickLog[s]) :
                BaseBucket(tickLog[s][k]) > bar.bucket_time

\* What does hold of a completed base candle: it aggregates the ticks that
\* were applied to it while it was open.
BaseCandleOfAppliedTicks ==
    \A s \in Symbols :
       /\ Len(doneTicks[s]) = Len(Completed(s, base_timeframe))
       /\ \A i \in 1..Len(Completed(s, base_timeframe)) :
             IsCandleOfTicks(Completed(s, base_timeframe)[i], doneTicks[s][i])

\* The bar-closure scenario: ticks at 60.0, 60.1, 60.4, 60.9 s with prices
\* 100, 101, 99, 102 and quantity 1, then a tick at 120.0 s.
ScenarioTicks ==
    << Tick("BTC", 600, 100, 1), Tick("BTC", 601, 101, 1),
       Tick("BTC", 604, 99, 1), Tick("BTC", 609, 102, 1),
       Tick("BTC", 1200, 103, 1) >>

BarClosureScenario ==
    tickLog["BTC"] = ScenarioTicks =>
        /\ Len(Completed("BTC", "1m")) = 1
        /\ LET bar == Completed("BTC", "1m")[1] IN
              /\ bar.bucket_time = 60
              /\ bar.open = 100 /\ bar.high = 102 /\ bar.low = 99
              /\ bar.close = 102 /\ bar.volume = 4 /\ bar.trade_count = 4
        /\ builder.current_bars["BTC"]["1m"].bucket_time = 120
        /\ builder.current_bars["BTC"]["1m"].open = 103

BarClosureScenarioReached == tickLog["BTC"] = ScenarioTicks

\* The roll-up scenario: 1m candles at buckets 0, 60, 120, 180, 240.
ScenarioBases ==
    << Candle("BTC", 0, 10, 12, 9, 11, 1, 4),
       Candle("BTC", 60, 11, 13, 10, 12, 2, 4),
       Candle("BTC", 120, 12, 14, 11, 13, 3, 4),
       Candle("BTC", 180, 13, 15, 12, 14, 4, 4),
       Candle("BTC", 240, 14, 16, 13, 15, 5, 4) >>

IsScenarioRollup(bar) ==
    /\ bar.timeframe = "5m" /\ bar.bucket_time = 0
    /\ bar.open = 10 /\ bar.high = 16 /\ bar.low = 9 /\ bar.close = 15
    /\ bar.volume = 15

Closed(bar) == [bar EXCEPT !.completed = TRUE]

\* C8: every rolled-up candle, open or completed, has the open of the first
\* base candle rolled into it, the close of the last, the max of their
\* highs, the min of their lows and the sum of their volumes; the five
\* scenario candles give the 5m candle {o=10, h=16, l=9, c=15, v=15} at
\* bucket 0, which is what is completed when the candle of bucket 300 closes.
C8_RollupOfBaseCandles ==
    /\ \A s \in Symbols, tf \in Timeframes \ {base_timeframe} :
          /\ Len(doneBases[s][tf]) = Len(Completed(s, tf))
          /\ \A i \in 1..Len(Completed(s, tf)) :
                IsCandleOfBases(Completed(s, tf)[i], doneBases[s][tf][i])
          /\ builder.current_bars[s][tf] # NoBar =>
                IsCandleOfBases(builder.current_bars[s][tf], openBases[s][tf])
    /\ Completed("BTC", "1m") = [i \in 1..5 |-> Closed(ScenarioBases[i])] =>
          IsScenarioRollup(builder.current_bars["BTC"]["5m"])
    /\ ( /\ Len(Completed("BTC", "1m")) = 6
         /\ SubSeq(Completed("BTC", "1m"), 1, 5)
               = [i \in 1..5 |-> Closed(ScenarioBases[i])]
         /\ Completed("BTC", "1m")[6].bucket_time = 300 ) =>
          /\ Len(Completed("BTC", "5m")) = 1
          /\ IsScenarioRollup(Completed("BTC", "5m")[1])
          /\ Completed("BTC", "5m")[1].completed

C8_Witness ==
    /\ Len(Completed("BTC", "1m")) = 6
    /\ SubSeq(Completed("BTC", "1m"), 1, 5)
          = [i \in 1..5 |-> Closed(ScenarioBases[i])]
    /\ Len(Completed("BTC", "5m")) = 1
    /\ IsScenarioRollup(Completed("BTC", "5m")[1])
    /\ Len(doneBases["BTC"]["5m"][1]) = 5

\* C9: for every (symbol, timeframe) the completed bars have strictly
\* increasing bucket times, in whatever order the ticks arrive.
C9_CompletionsStrictlyIncreasing ==
    \A s \in Symbols, tf \in Timeframes :
       \A i, j \in 1..Len(Completed(s, tf)) :
          i < j => Completed(s, tf)[i].bucket_time < Completed(s, tf)[j].bucket_time

\* C10: a tick whose timestamp lies before the start of the open base
\* bucket of its symbol is dropped: the open candle is left as it is, no
\* candle is completed and none is opened for the older bucket.
C10_LateTickDropped ==
    [][\A s \in Symbols :
          LET bar == builder.current_bars[s][base_timeframe] IN
          ( /\ bar # NoBar
            /\ Len(tickLog'[s]) = Len(tickLog[s]) + 1
            /\ Last(tickLog'[s]).timestamp < bar.bucket_time * Scale )
              => /\ builder'.current_bars[s] = builder.current_bars[s]
                 /\ builder'.completed_bars_cache[s] = builder.completed_bars_cache[s]
      ]_vars

\* C11: the bucket of a tick with timestamp t at period p is floor(t/p)*p:
\* after a tick is applied, the open base candle of its symbol has a bucket
\* that is a multiple of p with bucket <= t < bucket + p, so a tick exactly
\* on a multiple of p belongs to the bucket that starts there.
C11_BucketIsFloor ==
    \A s \in Symbols :
       tickLog[s] # <<>> =>
          LET t == Last(tickLog[s]).timestamp
              p == timeframe_seconds(base_timeframe)
              b == builder.current_bars[s][base_timeframe].bucket_time
          IN  /\ b % p = 0
              /\ b * Scale <= t
              /\ t < (b + p) * Scale

\* A tick exactly on the boundary 120.0 s has closed the candle of bucket 60
\* and opened the candle of bucket 120.
C11_Witness ==
    /\ tickLog["BTC"] # <<>>
    /\ Last(tickLog["BTC"]).timestamp = 1200
    /\ builder.current_bars["BTC"][base_timeframe].bucket_time = 120
    /\ builder.current_bars["BTC"][base_timeframe].trade_count = 1
    /\ Completed("BTC", base_timeframe) # <<>>
    /\ Last(Completed("BTC", base_timeframe)).bucket_time = 60

\* C12: for every client and every sequence of is_allowed calls (any cost
\* >= 1, any elapsed time) the stored token count stays within
\* 0 <= tokens <= capacity.
C12_TokensWithinCapacity ==
    limiter # NoLimiter =>
       \A c \in Clients :
          redis[c] # NoKey =>
             /\ 0 <= redis[c].tokens
             /\ redis[c].tokens <= limiter.rate * limiter.period

\* The upper half of C12 alone: stored tokens never exceed the capacity.
TokensAtMostCapacity ==
    limiter # NoLimiter =>
       \A c \in Clients :
          redis[c] # NoKey => redis[c].tokens <= limiter.rate * limiter.period

\* C13: for each client, whatever the other clients do: of the cost-1
\* requests made from a new bucket with no time elapsing, the first `rate`
\* are allowed and every further one is denied.
C13_FirstRateAllowed ==
    limiter # NoLimiter =>
       \A c \in Clients :
          LET b == rlBurst[c] IN
          (b.n > 0 /\ b.fresh /\ b.unit /\ b.still) =>
             b.granted = Min(b.n, limiter.rate)

\* C13 restricted to limiters with rate >= 1.
FirstRateAllowedForPositiveRate ==
    (limiter # NoLimiter /\ limiter.rate >= 1) =>
       \A c \in Clients :
          LET b == rlBurst[c] IN
          (b.n > 0 /\ b.fresh /\ b.unit /\ b.still) =>
             b.granted = Min(b.n, limiter.rate)

\* A client has been denied its (rate + 1)-th request in a row while the
\* other client has used nothing of its own bucket.
FirstRateAllowedReached ==
    /\ limiter # NoLimiter
    /\ limiter.rate >= 1
    /\ \E c \in Clients :
          LET b == rlBurst[c] IN
          /\ b.fresh /\ b.unit /\ b.still
          /\ b.n = limiter.rate + 1
          /\ b.granted = limiter.rate
          /\ rlLast.client_id = c
          /\ ~rlLast.allowed

\* The last call of is_allowed was denied.
Denied == rlLast.op = "is_allowed" /\ ~rlLast.allowed

\* C14: whenever a request is denied, retry_after is
\* ceil((cost - tokens) / refill_rate), computed on the token count after
\* the refill, and is at least 1.
C14_RetryAfterIsCeil ==
    Denied =>
       LET need == rlLast.cost * limiter.period - rlLast.tokens IN
       /\ rlLast.retry_after = (need + limiter.rate - 1) \div limiter.rate
       /\ rlLast.retry_after >= 1

\* C14 as the code has it: whenever a request is denied, retry_after is
\* floor((cost - tokens) / refill_rate) + 1 on the token count after the
\* refill; that is the ceiling when the quotient is not a whole number and
\* one more than it when it is, and it is at least 1.
C14_RetryAfterFloorPlusOne ==
    Denied =>
       LET c == rlLast.client_id
           need == rlLast.cost * limiter.period - rlLast.tokens
           ceil == (need + limiter.rate - 1) \div limiter.rate
       IN  /\ need > 0
           /\ redis[c] # NoKey =>
                 rlLast.tokens =
                    Min(limiter.rate * limiter.period,
                        redis[c].tokens
                          + (rlLast.t - redis[c].last_refill) * limiter.rate)
           /\ rlLast.retry_after = (need \div limiter.rate) + 1
           /\ rlLast.retry_after =
                 (IF need % limiter.rate = 0 THEN ceil + 1 ELSE ceil)
           /\ rlLast.retry_after >= 1

\* A request was denied on a bucket that had refilled since its last
\* write, with a shortfall that is a whole number of seconds of refill.
C14_Witness ==
    /\ Denied
    /\ redis[rlLast.client_id] # NoKey
    /\ rlLast.t > redis[rlLast.client_id].last_refill
    /\ rlLast.tokens > redis[rlLast.client_id].tokens
    /\ (rlLast.cost * limiter.period - rlLast.tokens) % limiter.rate = 0

\* C15: when more than `rate` cost-1 requests of one client run
\* concurrently against a full bucket (rate >= 1), exactly `rate` of them
\* are allowed.
C15_ConcurrentGrantsExactlyRate ==
    (limiter # NoLimiter /\ limiter.rate >= 1) =>
       \A c \in Clients :
          LET b == rlBurst[c] IN
          (b.unit /\ b.still /\ b.n > limiter.rate /\ b.done = b.n) =>
             b.granted = limiter.rate

CooldownRefireReached ==
    /\ alFires["a1"].count = 2
    /\ alFires["a1"].gap = Rules["a1"].cooldown_seconds

QLen(queue) == IF queue = NoQueue THEN 0 ELSE Len(queue)

ResentAfterThrottleReached ==
    /\ wsLast.op = "broadcast"
    /\ \E w \in wsLast.sent :
          /\ manager.message_queues[w] # NoQueue
          /\ manager.last_send_time[w] = ws_now

\* C19: the updates queued for a client stay queued until throttle_interval
\* has passed since the client's last immediate send; only then does a
\* flush deliver them (four updates queued within the second after the
\* first send arrive as one batch frame at 1.0 s).
C19_QueuedHeldUntilThrottleElapsed ==
    [][next_flush' # next_flush =>
         \A w \in wsLast'.flushed :
            ws_now - manager.last_send_time[w] >= throttle_interval
      ]_vars

\* C20: whenever a send to a client fails, in a broadcast or in a flush,
\* the client is out of the registry, with its queue and its last send
\* record, when the operation returns.
C20_FailedClientRemoved ==
    \A w \in wsLast.failed :
       /\ w \notin Registered(manager)
       /\ manager.message_queues[w] = NoQueue
       /\ manager.last_send_time[w] = None

\* C20 for the broadcast alone.
BroadcastFailureRemovesClient ==
    wsLast.op = "broadcast" =>
       \A w \in wsLast.failed :
          /\ w \notin Registered(manager)
          /\ manager.message_queues[w] = NoQueue
          /\ manager.last_send_time[w] = None

\* A broadcast has met a client whose send raised.
BroadcastFailureReached ==
    wsLast.op = "broadcast" /\ wsLast.failed # {}

\* C21: no update and no batch frame is sent to a client before its
\* `initial` snapshot: every client a broadcast sends the update to, and
\* every client a flush sends a frame to, has been sent its snapshot.
C21_SnapshotBeforeUpdates ==
    [][(ws_seq' # ws_seq \/ next_flush' # next_flush) =>
         \A w \in wsLast'.sent \cup wsLast'.flushed : w \in initial_sent
      ]_vars

\* A client has been sent its snapshot and then an update.
SnapshotThenUpdateReached ==
    /\ wsLast.op = "broadcast"
    /\ wsLast.sent \cap initial_sent # {}

(***************************************************************************)
(* Pipeline properties                                                     *)
(***************************************************************************)
SameKey(e1, e2) == e1.symbol = e2.symbol /\ e1.timeframe = e2.timeframe

\* C22: for one (symbol, timeframe) the side effects of completed bar b_n
\* are all made before any side effect of b_(n+1), the bars being taken in
\* the order of their arrival, and two bars are never handled at once.
C22_BarsOfKeySequential ==
    /\ Len(tasks) <= 1
    /\ \A i, j \in DOMAIN effects :
          (i < j /\ SameKey(effects[i], effects[j])) =>
             effects[i].n <= effects[j].n
    /\ \A i \in DOMAIN tasks : \A j \in DOMAIN effects :
          SameKey(tasks[i].bar, effects[j]) => effects[j].n <= tasks[i].bar.n

\* Bar b_n of a key is being handled, its candle stored and its indicator
\* row not yet, while b_(n+1) of the same key has arrived and waits.
C22_Witness ==
    \E i \in DOMAIN tasks, j \in DOMAIN proc_inbox, k \in DOMAIN effects :
       /\ tasks[i].stage = "store"
       /\ SameKey(tasks[i].bar, proc_inbox[j])
       /\ tasks[i].bar.n < proc_inbox[j].n
       /\ effects[k] = Effect(tasks[i].bar, "candle")

\* Two bars of one key both have their indicator rows, in arrival order.
BothBarsHandledReached ==
    \E i, j \in DOMAIN effects :
       /\ i < j
       /\ SameKey(effects[i], effects[j])
       /\ effects[i].n < effects[j].n
       /\ effects[i].what = "indicators"
       /\ effects[j].what = "indicators"

\* C26: every tick a collector publishes goes to trades:<venue> and is
\* delivered to the processor's subscription, which hands it to the bar
\* builder.
C26_TicksReachProcessor ==
    \A e \in pubLast :
       e.kind = "trade" =>
          /\ e.channel = trade_channel(e.origin)
          /\ "processor" \in e.receivers

\* The first half of C26: ticks are published on trades:<venue>.
TicksPublishedOnVenueChannel ==
    \A e \in pubLast : e.kind = "trade" => e.channel = trade_channel(e.origin)

\* A collector has published a tick.
TickPublishedReached == \E e \in pubLast : e.kind = "trade"

\* C27: every completed bar, from the bar builder or forwarded by a
\* collector, is published on bars:completed and so reaches the processor,
\* which runs the indicator engine.
C27_BarsOnBarsCompleted ==
    \A e \in pubLast :
       e.kind = "bar" =>
          /\ e.channel = "bars:completed"
          /\ "processor" \in e.receivers

\* The bars of the polling collector of venue C are on bars:completed.
PolygonBarsOnBarsCompleted ==
    \A e \in pubLast :
       (e.kind = "bar" /\ e.origin = "polygon") =>
          (e.channel = "bars:completed" /\ "processor" \in e.receivers)

(***************************************************************************)
(* Circuit breaker: concurrent callers                                     *)
(***************************************************************************)

\* C23: with callers running concurrently, every admission check and every
\* success/failure update acts on the breaker as a whole: the counters
\* lose no update (failure_count of a CLOSED breaker is the number of
\* failures since the last success or reset, success_count of a HALF_OPEN
\* one the number of successes since it became HALF_OPEN), a CLOSED
\* breaker admits every caller, and a success reported to a CLOSED breaker
\* leaves it CLOSED with failure_count = 0.
C23_UpdatesSerialized ==
    /\ breaker.state = "CLOSED" => breaker.failure_count = cbHist.consec
    /\ breaker.state = "HALF_OPEN" => breaker.success_count = cbHist.hoSucc
    /\ (cbLast.from = "CLOSED" /\ cbLast.op \in {"admit", "reject"}) =>
          cbLast.op = "admit"
    /\ (cbLast.from = "CLOSED" /\ cbLast.op = "success") =>
          (breaker.state = "CLOSED" /\ breaker.failure_count = 0)

\* Every caller was admitted by the CLOSED breaker and they run at the
\* same time: one has just returned its result, the others still run, and
\* the breaker is CLOSED with failure_count = 0.
C23_Witness ==
    /\ cbLast.op = "success"
    /\ cbLast.from = "CLOSED"
    /\ \A c \in Callers \ {cbLast.caller} : pc[c] = "running"
    /\ breaker.state = "CLOSED"
    /\ breaker.failure_count = 0

(***************************************************************************)
(* Data quality properties                                                 *)
(***************************************************************************)
MinOfSet(S) == CHOOSE x \in S : \A y \in S : x <= y

\* C24: the result of a validation carries the reason of the first failing
\* check in the order valid values, freshness, price anomaly, volume
\* sanity; the tick's price and quantity are appended to the symbol's
\* history exactly when no check fails, and a rejected tick leaves every
\* history as it was.
C24_FirstFailureAndHistory ==
    [][dq_count' # dq_count =>
         LET trade == dqLast'.trade
             symbol == trade.symbol
             results == <<check_valid_values(trade),
                          check_data_freshness(trade),
                          check_price_anomaly(checker.price_history[symbol], trade),
                          check_volume_sanity(checker.volume_history[symbol], trade)>>
             failing == {i \in 1..4 : ~results[i].ok}
         IN  /\ \A s \in Symbols \ {symbol} :
                   /\ checker'.price_history[s] = checker.price_history[s]
                   /\ checker'.volume_history[s] = checker.volume_history[s]
             /\ IF failing = {}
                THEN /\ dqLast'.valid
                     /\ dqLast'.reason = NoReason
                     /\ checker'.price_history[symbol] =
                           history_append(checker.price_history[symbol], trade.price)
                     /\ checker'.volume_history[symbol] =
                           history_append(checker.volume_history[symbol], trade.quantity)
                ELSE /\ ~dqLast'.valid
                     /\ dqLast'.reason = <<CheckNames[MinOfSet(failing)],
                                           results[MinOfSet(failing)].error>>
                     /\ checker'.price_history[symbol] = checker.price_history[symbol]
                     /\ checker'.volume_history[symbol] = checker.volume_history[symbol]
      ]_vars

\* A tick that is stale and whose price is an anomaly against a full
\* enough history was rejected for staleness, the earlier check, and the
\* history is as before.
C24_Witness ==
    /\ ~dqLast.valid
    /\ dqLast.reason = <<"data_freshness", "Data too old">>
    /\ ~check_price_anomaly(checker.price_history[dqLast.trade.symbol],
                            dqLast.trade).ok
    /\ Len(checker.price_history[dqLast.trade.symbol]) >= min_history

\* Every check is the first failing one of some tick, with each error.
AnomalyRejectedReached ==
    ~dqLast.valid /\ dqLast.reason = <<"price_anomaly", "Price anomaly">>

LargeChangeRejectedReached ==
    ~dqLast.valid /\ dqLast.reason = <<"price_anomaly", "Large price change">>

VolumeRejectedReached ==
    ~dqLast.valid /\ dqLast.reason = <<"volume_sanity", "Abnormal volume">>

\* The numerator over 10^n of the alpha = 0.1 moving average of a stream of
\* n outcomes that starts from 1.0:
\*   0.9^n + sum over i of 0.1 * 0.9^(n-i) * x_i
EmaNum(stream) ==
    LET n == Len(stream)
        term[i \in 0..n] ==
            IF i = 0 THEN Pow(9, n)
            ELSE term[i - 1] +
                 (IF stream[i] THEN Pow(10, i - 1) * Pow(9, n - i) ELSE 0)
    IN  term[n]

C28_ErrorCountedAndDisconnected ==
    (colLast.op = "connect" /\ colLast.err.pending) =>
        (colLast.err.counted /\ colLast.err.disconnected)

\* What the handler of start() does do: an error it catches is counted
\* and the collector marked disconnected before the next attempt.
HandlerCountsError ==
    /\ colLast.op = "error" =>
          (colErr.counted /\ ~collector.is_connected /\ collector.errors_count > 0)
    /\ collector.errors_count <= collector.reconnections_count

\* A connect attempt is made after an error of run() while disconnect()
\* has not been called.
ReconnectWithoutDisconnectReached ==
    /\ colLast.op = "connect"
    /\ colLast.err.pending
    /\ colLast.err.counted
    /\ ~colLast.err.disconnected

\* C29: every connect attempt that follows a failure comes after a wait of
\* the current reconnect delay, the delay never exceeds
\* max_reconnect_delay, and it is reconnect_delay again after a successful
\* connect.
C29_AttemptsSpacedByBackoff ==
    /\ (colLast.op = "connect" /\ colLast.err.pending) =>
          colLast.at - colLast.err.at >= colLast.err.delay
    /\ collector.current_reconnect_delay <= max_reconnect_delay
    /\ (colLast.op = "connect" /\ colLast.result = "connected") =>
          collector.current_reconnect_delay = reconnect_delay

\* The parts of the backoff that hold: the delay stays within
\* [reconnect_delay, max_reconnect_delay], is reset by a successful
\* connect, and an attempt that follows an error counted by the handler of
\* start() comes after the delay of that time.
BackoffDelayBounded ==
    /\ collector.current_reconnect_delay >= reconnect_delay
    /\ collector.current_reconnect_delay <= max_reconnect_delay
    /\ (colLast.op = "connect" /\ colLast.result = "connected") =>
          collector.current_reconnect_delay = reconnect_delay
    /\ (colLast.op = "connect" /\ colLast.err.pending /\ colLast.err.counted) =>
          colLast.at - colLast.err.at >= colLast.err.delay

\* The connect of reconnect() has failed and the top of the loop of start()
\* connects again at once.
ImmediateRetryReached ==
    /\ colLast.op = "connect"
    /\ colLast.err.pending
    /\ ~colLast.err.counted
    /\ colLast.at = colLast.err.at

(***************************************************************************)
(* Polling rate limit: C30                                                 *)
(***************************************************************************)
\* The requests issued within the 60 s that start at time t.
RequestsFrom(t) ==
    {j \in DOMAIN poly_log : t <= poly_log[j] /\ poly_log[j] < t + rate_window}

\* C30: in any 60-second interval, whatever its alignment, the polling
\* collector issues at most requests_per_minute upstream requests.
C30_SlidingWindowRespected ==
    \A i \in DOMAIN poly_log :
       Cardinality(RequestsFrom(poly_log[i])) <= requests_per_minute

\* What _check_rate_limit does enforce: at most requests_per_minute
\* requests are counted in the window that began at request_window_start.
FixedWindowRespected ==
    /\ polygon.request_count <= requests_per_minute
    /\ poly_pc.stage = "response" => polygon.request_count < requests_per_minute
    /\ Cardinality({j \in DOMAIN poly_log :
                       poly_log[j] >= polygon.request_window_start})
          <= requests_per_minute

\* More than requests_per_minute requests were issued within 60 s around
\* the restart of the window.
BoundaryBurstReached ==
    \E i \in DOMAIN poly_log :
       /\ Cardinality(RequestsFrom(poly_log[i])) > requests_per_minute
       /\ poly_log[i] < polygon.request_window_start

(***************************************************************************)
(* Alert evaluation step by step: C31, C32, C34                            *)
(***************************************************************************)
\* C31: every evaluation of the MACD_CROSSOVER condition with macd and
\* signal present compares against the prev_macd/prev_signal that the
\* rule's previous such evaluation stored, whether or not that one fired.
C31_MacdComparesStoredValues ==
    evMacd.compared = evMacd.expected

\* What does hold: the values an evaluation stores reach the alerts table
\* only with a fire of the rule.
MacdMetadataPersistedOnlyOnFire ==
    (ev_db["a1"] # NoRow /\ ev_db["a1"].metadata # NoMetadata) =>
        ev_db["a1"].trigger_count > 0

\* The rule's second evaluation finds no previous values although the
\* first one stored them: the list that held them was dropped from the
\* cache.
MacdValuesLostReached ==
    /\ evMacd.evaluations = 2
    /\ evMacd.expected # NoMetadata
    /\ evMacd.compared = NoMetadata

\* The MACD rule fires on a crossover seen through the cached object.
MacdFiresReached ==
    /\ evFires["a1"].count = 1
    /\ evMacd.compared = [prev_macd |-> 1, prev_signal |-> 2]
    /\ evMacd.stored = [prev_macd |-> 3, prev_signal |-> 2]

\* C32: an evaluation that uses a cached rule set uses one that was loaded
\* from the store no more than the time to live earlier and not before the
\* last completed mutation of the symbol's rules.
C32_RuleSetFresh ==
    evLast.op = "cached" => (evLast.age <= cache_ttl /\ ~evLast.stale)

\* What does hold: a cached set never predates a completed mutation of
\* its symbol's rules.
CachedSetNotStale ==
    /\ evLast.op = "cached" => ~evLast.stale
    /\ \A s \in Symbols :
          ev_cache[s] # 0 => ev_heap[ev_cache[s]].mutations = ev_mutations[s]

\* A cached set older than the time to live is used: the refresh time had
\* been moved on by the load of another symbol's rules.
ExpiredSetUsedReached ==
    /\ evLast.op = "cached"
    /\ evLast.age > cache_ttl
    /\ ev_now - ev_refreshed < cache_ttl

SecondUpdateHeldBackReached ==
    /\ ev_count = 2
    /\ ev_inbox = <<>>
    /\ ev_tasks = <<>>
    /\ evFires["a2"].count = 1
    /\ ev_db["a2"].trigger_count = 1
    /\ evLast.op = "pass"
    /\ ev_now < evFires["a2"].last + 2

(***************************************************************************)
(* The limiter with rate = 0: C33                                          *)
(***************************************************************************)
\* C33: a limiter configured with rate = 0 denies every request of every
\* client.
C33_ZeroRateDeniesAll ==
    (limiter # NoLimiter /\ limiter.rate = 0 /\ rlLast.op = "is_allowed") =>
       ~rlLast.allowed

\* A request to a limiter with rate = 0 was allowed from a bucket that
\* already existed: the division by the refill rate 0 fell back to allow.
ZeroRateFallbackAllowReached ==
    /\ limiter # NoLimiter
    /\ limiter.rate = 0
    /\ rlLast.op = "is_allowed"
    /\ rlLast.allowed
    /\ rlBurst[rlLast.client_id].n >= 2


(***************************************************************************)
(* Late outcomes and the breaker's state invariants: C37, C40              *)
(***************************************************************************)
\* The outcome of caller c is handled in this step.
OutcomeOf(c) == pc[c] = "running" /\ pc'[c] = "idle"

\* C37: only outcomes of operations admitted while HALF_OPEN can close or
\* re-open the breaker: when the outcome of an operation admitted before the
\* breaker opened is handled in HALF_OPEN, the breaker stays HALF_OPEN and
\* its success_count is unchanged.
C37_LateOutcomesIgnored ==
    [][\A c \in Callers :
          (OutcomeOf(c) /\ breaker.state = "HALF_OPEN"
                        /\ admitted_in[c] # "HALF_OPEN") =>
             /\ breaker'.state = "HALF_OPEN"
             /\ breaker'.success_count = breaker.success_count]_vars

\* What the code keeps: an outcome handled in HALF_OPEN is counted whatever
\* state admitted its operation: a success adds one to success_count or
\* closes the breaker, a failure opens it.
OutcomeCountedWhateverAdmitted ==
    [][\A c \in Callers :
          (OutcomeOf(c) /\ breaker.state = "HALF_OPEN") =>
             \/ breaker' = on_success(breaker)
             \/ breaker' = on_failure(breaker, now)]_vars

\* The breaker is HALF_OPEN while an operation admitted in CLOSED is still
\* in flight.
LateOperationInHalfOpenReached ==
    /\ breaker.state = "HALF_OPEN"
    /\ \E c \in Callers : admitted_in[c] = "CLOSED"


\* C40: in every reachable state of the breaker, under any interleaving of
\* guarded calls and manual resets: CLOSED implies failure_count below
\* failure_threshold, success_count = 0 and opened_at unset; OPEN or
\* HALF_OPEN implies opened_at set.
C40_StateInvariants ==
    /\ breaker.state = "CLOSED" =>
          /\ breaker.failure_count < FailureThreshold
          /\ breaker.success_count = 0
          /\ breaker.opened_at = None
    /\ breaker.state \in {"OPEN", "HALF_OPEN"} => breaker.opened_at # None

\* A manual reset has closed a HALF_OPEN breaker while an operation is
\* still in flight.
C40_Witness ==
    /\ cbLast.op = "reset"
    /\ cbLast.from = "HALF_OPEN"
    /\ breaker.state = "CLOSED"
    /\ \E c \in Callers : pc[c] = "running"

\* The breaker is CLOSED one failure below the threshold with two
\* operations in flight.
ClosedBelowThresholdReached ==
    /\ breaker.state = "CLOSED"
    /\ breaker.failure_count = FailureThreshold - 1
    /\ \A c \in Callers : pc[c] = "running"


(***************************************************************************)
(* One completion per bucket: C38                                          *)
(***************************************************************************)
\* C38: for each (symbol, timeframe, bucket) at most one completion event
\* is emitted, so that a stored candle is never replaced by a later candle
\* of the same bucket built from only part of its ticks.
C38_OneCompletionPerBucket ==
    \A s \in Symbols, tf \in Timeframes :
       \A i, j \in 1..Len(Completed(s, tf)) :
          i # j => Completed(s, tf)[i].bucket_time # Completed(s, tf)[j].bucket_time

\* Two base candles were completed for the same bucket, the later one built
\* from fewer ticks than the ticks of that bucket that arrived.
PartialCandleCompletedAgainReached ==
    \E s \in Symbols :
       \E i, j \in 1..Len(Completed(s, base_timeframe)) :
          /\ i < j
          /\ Completed(s, base_timeframe)[i].bucket_time
                = Completed(s, base_timeframe)[j].bucket_time
          /\ Len(doneTicks[s][j]) <
                Cardinality({k \in 1..Len(tickLog[s]) :
                                get_bucket_time(tickLog[s][k].timestamp, base_timeframe)
                                   = Completed(s, base_timeframe)[j].bucket_time})


(***************************************************************************)
(* The collector's health loop: C39                                        *)
(***************************************************************************)
\* C39: at most one health-update loop task is alive per collector, across
\* errors, circuit-open waits and reconnects: the previous loop is
\* cancelled before a new one is started.
C39_OneHealthLoop == health_tasks <= 1

\* What the code keeps: a new loop is started only on entering run(), and
\* as long as nothing was raised and the collector is not stopped, the loop
\* of an iteration is cancelled when its run() returns.
HealthLoopCancelledOnReturn ==
    /\ health_tasks <= col_attempts
    /\ (col_pc = "running" /\ collector.errors_count = 0) => health_tasks = 1
    /\ (col_pc # "running" /\ collector.is_running
                            /\ collector.errors_count = 0) => health_tasks = 0

\* After an error in run() the collector is running again next to the loop
\* task of the failed iteration.
SecondHealthLoopReached ==
    /\ col_pc = "running"
    /\ collector.is_running
    /\ collector.errors_count = 1
    /\ health_tasks = 2


(***************************************************************************)
(* Order of delivery to a WebSocket client: C35                            *)
(***************************************************************************)
\* The messages waiting in the ring of a client.
Held(websocket) ==
    IF manager.message_queues[websocket] = NoQueue THEN <<>>
    ELSE manager.message_queues[websocket]

\* C35: each client receives the updates of its symbol in broadcast order:
\* a message held in the ring is never delivered after a later-broadcast
\* message, so when a broadcast has been sent to a client directly, no
\* earlier message is still waiting in the ring of that client.
C35_DeliveredInBroadcastOrder ==
    wsLast.op = "broadcast" =>
       \A w \in wsLast.sent : Held(w) = <<>>

\* What the code keeps: the ring holds the messages in broadcast order, and
\* every one of them is older than the latest broadcast.
RingInBroadcastOrder ==
    \A w \in WsClients :
       /\ \A i, j \in 1..Len(Held(w)) : i < j => Held(w)[i] < Held(w)[j]
       /\ \A i \in 1..Len(Held(w)) : Held(w)[i] <= ws_seq

\* The flusher's next turn is due while an open client that was just sent
\* broadcast n directly still has broadcast n - 1 in its ring: the turn
\* delivers n - 1 after n.
OvertakenMessageFlushedReached ==
    /\ wsLast.op = "broadcast"
    /\ ws_now >= next_flush
    /\ \E w \in wsLast.sent :
          /\ sock[w] = "open"
          /\ Held(w) = <<ws_seq - 1>>


(***************************************************************************)
(* A broadcast reaches every client that stays: C36                        *)
(***************************************************************************)
\* C36: a broadcast sends or enqueues the message for every client that
\* stays registered throughout the broadcast, even if another client
\* connects, disconnects or fails while it is in progress.
C36_BroadcastReachesAllWhoStay ==
    bcLast.op \in {"done", "raised"} => bcLast.stayed \subseteq bcLast.got

\* What the code keeps: a broadcast whose loop comes to its end has sent or
\* enqueued the message for every client that stayed.
CompletedBroadcastReachesAll ==
    bcLast.op = "done" => bcLast.stayed \subseteq bcLast.got

\* A broadcast ended in RuntimeError, the dict having changed size during a
\* send, and a client that was registered and open all along got nothing.
ClientSkippedReached ==
    /\ bcLast.op = "raised"
    /\ \E w \in bcLast.stayed :
          /\ w \notin bcLast.got
          /\ bc_sock[w] = "open"
          /\ w \in Keys(bc_manager.active_connections)


====
